---- MODULE Spec2Model ----
(***************************************************************************)
(* Model of the intent framework: IntentFramework.process (one turn), the *)
(* middleware loop, executeFunctionCalls and the PluginManager hook bus.  *)
(* External collaborators (completion provider, storage provider,         *)
(* middleware, context provider, function handlers, plugin handlers) are  *)
(* nondeterministic: every call either returns one of a few values or     *)
(* throws.                                                                *)
(***************************************************************************)
EXTENDS Integers, Sequences, FiniteSets, TLC

\* ------------------------------------------------------------------------
\* Bounds
\* ------------------------------------------------------------------------
\* largest number of middleware attached to the contract
MaxMw == 2
\* largest number of tool calls the completion provider returns in one batch
MaxCalls == 2

\* ------------------------------------------------------------------------
\* Values
\* ------------------------------------------------------------------------
Undefined == "undefined"
Null == "null"

\* the nine lifecycle hooks of types/plugins.ts HookMap
HookNames ==
  {"onBeforeIntentDetection", "onAfterIntentDetection",
   "onBeforeContextInjection", "onAfterContextInjection",
   "onBeforeFunctionExecution", "onAfterFunctionExecution",
   "onBeforeResponseGeneration", "onAfterResponseGeneration", "onError"}

\* fixed response texts of process
FallbackText ==
  "I'm not sure how to help with that. Could you please rephrase your request?"
MiddlewareStoppedText ==
  "Your request was processed but stopped by a validation rule."
ErrorText ==
  "I encountered an error while processing your request. Please try again."
NoResponseText == "No response generated."
FunctionExecutedText == "Function executed successfully."

\* ------------------------------------------------------------------------
\* Sequence helpers
\* ------------------------------------------------------------------------
Range(s) == {s[i] : i \in DOMAIN s}

\* index of the first occurrence of x in s, 0 when absent
IndexOf(s, x) ==
  IF \E i \in DOMAIN s : s[i] = x
  THEN CHOOSE i \in DOMAIN s : s[i] = x /\ \A j \in 1..(i - 1) : s[j] # x
  ELSE 0

SetMax(S) == CHOOSE x \in S : \A y \in S : y <= x

\* Map.prototype.set: an existing key keeps its place and gets the new value,
\* a new key is added at the end
MapSetMovingToEnd(cs, value) ==
  Append(SelectSeq(cs, LAMBDA c : c.id # value.id), value)
MapSet(cs, value) ==
  IF \E i \in DOMAIN cs : cs[i].id = value.id
  THEN [cs EXCEPT ![CHOOSE i \in DOMAIN cs : cs[i].id = value.id] = value]
  ELSE Append(cs, value)

\* ------------------------------------------------------------------------
\* PluginManager
\* ------------------------------------------------------------------------
\* A plugin: id, priority (unset is read as 0), dependencies (array of ids)
\* and the set of hooks it implements.  The registry is a Map: a sequence in
\* insertion order with unique ids.
Plugin(id, priority, dependencies, hooks) ==
  [id |-> id, priority |-> priority, dependencies |-> dependencies,
   hooks |-> hooks]

PluginIdsOf(reg) == {reg[i].id : i \in DOMAIN reg}

\* this.plugins.get(pluginId): the registered plugin with that id
GetPlugin(reg, id) == reg[CHOOSE i \in DOMAIN reg : reg[i].id = id]

\* dependencyGraph.get(pluginId) || []
DependenciesOf(reg, id) ==
  IF id \in PluginIdsOf(reg) THEN GetPlugin(reg, id).dependencies ELSE <<>>

\* The depth-first visit of getSortedPlugins.  st carries sorted (ids in
\* post-order), visited, temp and err (the circular-dependency throw).
RECURSIVE visit(_, _, _)
RECURSIVE visitEach(_, _, _)
visit(reg, pluginId, st) ==
  IF st.err THEN st
  ELSE IF pluginId \in st.temp THEN [st EXCEPT !.err = TRUE]
  ELSE IF pluginId \in st.visited THEN st
  ELSE LET st1 == [st EXCEPT !.temp = @ \cup {pluginId}]
           st2 == visitEach(reg, DependenciesOf(reg, pluginId), st1)
       IN  IF st2.err THEN st2
           ELSE [st2 EXCEPT !.temp = @ \ {pluginId},
                            !.visited = @ \cup {pluginId},
                            !.sorted = IF pluginId \in PluginIdsOf(reg)
                                       THEN Append(@, pluginId) ELSE @]

visitEach(reg, ids, st) ==
  IF ids = <<>> THEN st
  ELSE visitEach(reg, Tail(ids), visit(reg, Head(ids), st))

\* the topological phase: plugins.forEach(visit) from an empty state
TopologicalSort(reg) ==
  visitEach(reg, [i \in DOMAIN reg |-> reg[i].id],
            [sorted |-> <<>>, visited |-> {}, temp |-> {}, err |-> FALSE])

\* Array.prototype.sort((a, b) => priorityB - priorityA): a stable sort by
\* descending priority of the sequence of plugin ids
RECURSIVE SortByPriorityFrom(_, _, _)
SortByPriorityFrom(reg, ids, p) ==
  IF p < 0 THEN <<>>
  ELSE SelectSeq(ids, LAMBDA id : GetPlugin(reg, id).priority = p)
         \o SortByPriorityFrom(reg, ids, p - 1)

\* the same list in ascending priority
RECURSIVE SortByPriorityUpTo(_, _, _, _)
SortByPriorityUpTo(reg, ids, p, top) ==
  IF p > top THEN <<>>
  ELSE SelectSeq(ids, LAMBDA id : GetPlugin(reg, id).priority = p)
         \o SortByPriorityUpTo(reg, ids, p + 1, top)

SortByPriorityAscending(reg, ids) ==
  IF ids = <<>> THEN <<>>
  ELSE SortByPriorityUpTo(reg, ids, 0,
         SetMax({GetPlugin(reg, id).priority : id \in Range(ids)}))
SortByPriority(reg, ids) ==
  IF ids = <<>> THEN <<>>
  ELSE SortByPriorityFrom(reg, ids,
         SetMax({GetPlugin(reg, id).priority : id \in Range(ids)}))

\* getSortedPlugins: err when a circular dependency is detected, else the
\* plugin ids in execution order
getSortedPluginsUnchecked(reg) ==
  [err |-> FALSE, order |-> SortByPriority(reg, TopologicalSort(reg).sorted)]
getSortedPlugins(reg) ==
  LET t == TopologicalSort(reg)
  IN  IF t.err THEN [err |-> TRUE, order |-> <<>>]
      ELSE [err |-> FALSE, order |-> SortByPriority(reg, t.sorted)]

\* The loop of executeHook over the sorted plugins.  throwers is the set of
\* plugins whose hook handlers throw, errThrowers the set of plugins whose
\* onError throws.  calls lists <<plugin id, handler invoked>>; a handler
\* that throws is caught, and for a hook other than onError the plugin's own
\* onError (if any) is invoked, its failure caught as well.
\* the handler calls made for one plugin that implements the hook: the
\* handler, and after a throw of a hook other than onError the plugin's own
\* onError if it has one
OwnCallsRecursing(p, hookName, throws) ==
  IF throws /\ "onError" \in p.hooks
  THEN << <<p.id, hookName>>, <<p.id, "onError">> >>
  ELSE << <<p.id, hookName>> >>
OwnCalls(p, hookName, throws) ==
  IF throws /\ hookName # "onError" /\ "onError" \in p.hooks
  THEN << <<p.id, hookName>>, <<p.id, "onError">> >>
  ELSE << <<p.id, hookName>> >>

RECURSIVE RunHookNoCatch(_, _, _, _, _)
RunHookNoCatch(reg, order, hookName, throwers, errThrowers) ==
  IF order = <<>> THEN [error |-> "none", calls |-> <<>>]
  ELSE LET p == GetPlugin(reg, Head(order))
           throws == IF hookName = "onError" THEN p.id \in errThrowers
                     ELSE p.id \in throwers
       IN  IF hookName \notin p.hooks
           THEN RunHookNoCatch(reg, Tail(order), hookName, throwers,
                               errThrowers)
           ELSE IF throws
           THEN [error |-> "PluginHandlerError",
                 calls |-> << <<p.id, hookName>> >>]
           ELSE LET rest == RunHookNoCatch(reg, Tail(order), hookName,
                                           throwers, errThrowers)
                IN  [error |-> rest.error,
                     calls |-> << <<p.id, hookName>> >> \o rest.calls]

RECURSIVE RunHook(_, _, _, _, _)
RunHook(reg, order, hookName, throwers, errThrowers) ==
  IF order = <<>> THEN [error |-> "none", calls |-> <<>>]
  ELSE LET p == GetPlugin(reg, Head(order))
           throws == IF hookName = "onError" THEN p.id \in errThrowers
                     ELSE p.id \in throwers
           rest == RunHook(reg, Tail(order), hookName, throwers, errThrowers)
           own == IF hookName \notin p.hooks THEN <<>>
                  ELSE OwnCalls(p, hookName, throws)
       IN  [error |-> rest.error, calls |-> own \o rest.calls]

\* executeHook: sort, then run the handlers.  error is what the call throws:
\* "none" or "CircularDependency" (from getSortedPlugins).
executeHook(reg, hookName, throwers, errThrowers) ==
  LET s == getSortedPlugins(reg)
  IN  IF s.err THEN [error |-> "CircularDependency", calls |-> <<>>]
      ELSE RunHook(reg, s.order, hookName, throwers, errThrowers)

\* Array.prototype.reverse
RECURSIVE Reverse(_)
Reverse(seq) ==
  IF seq = <<>> THEN <<>> ELSE Append(Reverse(Tail(seq)), Head(seq))

\* the order in which shutdown visits the sorted plugins
ShutdownOrderForward(order) == order
ShutdownOrder(order) == Reverse(order)

\* The loops of initialize and shutdown: method is invoked on every plugin of
\* the order; a plugin of throwers throws, which is caught and logged.
RECURSIVE RunLifecycle(_, _, _)
RunLifecycle(order, method, throwers) ==
  IF order = <<>> THEN [error |-> "none", calls |-> <<>>]
  ELSE LET rest == RunLifecycle(Tail(order), method, throwers)
           own == IF Head(order) \in throwers
                  THEN << <<Head(order), method>>,
                          <<Head(order), "console.error">> >>
                  ELSE << <<Head(order), method>> >>
       IN  [error |-> rest.error, calls |-> own \o rest.calls]

\* PluginManager.initialize and PluginManager.shutdown: sort, then the loop
initializePlugins(reg, throwers) ==
  LET s == getSortedPlugins(reg)
  IN  IF s.err THEN [error |-> "CircularDependency", calls |-> <<>>]
      ELSE RunLifecycle(s.order, "initialize", throwers)

shutdownPlugins(reg, throwers) ==
  LET s == getSortedPlugins(reg)
  IN  IF s.err THEN [error |-> "CircularDependency", calls |-> <<>>]
      ELSE RunLifecycle(ShutdownOrder(s.order), "shutdown", throwers)

\* ------------------------------------------------------------------------
\* Contracts, functions, tool calls
\* ------------------------------------------------------------------------
\* the functions attached to the contract: f takes no context, g requires it
Functions ==
  << [id |-> "f", name |-> "f", requiresContext |-> FALSE],
     [id |-> "g", name |-> "g", requiresContext |-> TRUE] >>

\* a contract: its intent id, the number of middleware in its array, whether
\* it has a context provider, and its functions
Contract(id, nMiddleware, hasProvider) ==
  [id |-> id, middleware |-> nMiddleware, contextProvider |-> hasProvider,
   functions |-> Functions]

NoContract == Contract("", 0, FALSE)

\* the registries a turn is run against: none, or one contract
ContractRegistries ==
  {<<>>} \cup
  {<<Contract("weather", n, cp)>> : n \in 0..MaxMw, cp \in BOOLEAN}

\* this.contracts.get(id)
contractsGet(cs, id) ==
  IF \E i \in DOMAIN cs : cs[i].id = id
  THEN cs[CHOOSE i \in DOMAIN cs : cs[i].id = id]
  ELSE NoContract

\* injected context values
NoContext == [src |-> "none", idx |-> 0]
MiddlewareContext(i) == [src |-> "middleware", idx |-> i]
ProviderContext == [src |-> "contextProvider", idx |-> 0]

\* what one middleware.execute call may do
MiddlewareResults(i) ==
  { [kind |-> "return", continue |-> c, modifiedContext |-> m] :
      c \in BOOLEAN, m \in {NoContext, MiddlewareContext(i)} }
  \cup { [kind |-> "throw", continue |-> FALSE, modifiedContext |-> NoContext] }

\* tool calls of a completion: the function name asked for and the argument
\* string, which is JSON or not
ToolCallShapes ==
  [name : {"f", "g", "nonExistentFunction"}, arguments : {"{}", "{not json"}]

ToolBatches ==
  UNION { { [i \in 1..n |->
              [id |-> i, name |-> b[i].name, arguments |-> b[i].arguments]] :
            b \in [1..n -> ToolCallShapes] } : n \in 1..MaxCalls }

\* JSON.parse of an argument string
JSONParse(str) ==
  IF str = "{}" THEN [ok |-> TRUE, value |-> "{}"]
  ELSE [ok |-> FALSE, value |-> Undefined]

\* availableFunctions.find((f) => f.name === functionName): index or 0
FindFunction(functions, name) ==
  IF \E i \in DOMAIN functions : functions[i].name = name
  THEN CHOOSE i \in DOMAIN functions :
         functions[i].name = name
         /\ \A j \in 1..(i - 1) : functions[j].name # name
  ELSE 0

\* what one handler call may do: return a value, null or undefined, or throw
HandlerOutcomes ==
  { [kind |-> "return", value |-> v] : v \in {"result", Null, Undefined} }
  \cup { [kind |-> "throw", value |-> "Test error"] }

\* JavaScript truthiness of the values of the model
Truthy(v) == v \notin {Undefined, Null, ""}

\* JSON.stringify: undefined has no JSON text
JSONStringify(v) == IF v = Undefined THEN Undefined ELSE "json:" \o v

\* the tool message pushed for one Function Call record
ToolMessage(fc) ==
  [role |-> "tool", tool_call_id |-> fc.functionId, tool_calls |-> <<>>,
   content |-> JSONStringify(IF Truthy(fc.result) THEN fc.result
                             ELSE fc.error)]

\* executionContext.functionCalls.push(functionCallRecord)
PushRecordFront(calls, record) == <<record>> \o calls
PushRecord(calls, record) == Append(calls, record)

\* ------------------------------------------------------------------------
\* Plugin registries a turn is run against, with the behaviour of the
\* plugins' handlers
\* ------------------------------------------------------------------------
NoErrorHooks == HookNames \ {"onError"}

NoPlugins == [plugins |-> <<>>, throwers |-> {}, errThrowers |-> {}]

PluginScenarios ==
  { \* no plugin
    NoPlugins,
    \* A depends on B and has the higher priority; C implements onError only
    [plugins |-> << Plugin("A", 1, <<"B">>, HookNames),
                    Plugin("B", 0, <<>>, NoErrorHooks),
                    Plugin("C", 0, <<>>, {"onError"}) >>,
     throwers |-> {}, errThrowers |-> {}],
    \* A depends on B, equal priorities, B's handlers throw
    [plugins |-> << Plugin("A", 0, <<"B">>, HookNames),
                    Plugin("B", 0, <<>>, HookNames) >>,
     throwers |-> {"B"}, errThrowers |-> {}],
    \* every handler throws, also onError
    [plugins |-> << Plugin("A", 0, <<>>, HookNames),
                    Plugin("B", 1, <<>>, NoErrorHooks) >>,
     throwers |-> {"A", "B"}, errThrowers |-> {"A"}],
    \* a dependency cycle
    [plugins |-> << Plugin("A", 0, <<"B">>, HookNames),
                    Plugin("B", 0, <<"A">>, HookNames) >>,
     throwers |-> {}, errThrowers |-> {}] }

\* a history stored by an earlier turn of the conversation
PriorHistory ==
  << [role |-> "user", content |-> "earlier", tool_call_id |-> 0,
      tool_calls |-> <<>>] >>

\* The configurations a turn is run in.  With a completion provider that
\* returns one tool call at a time: every plugin scenario against a contract
\* with one middleware and a context provider, with a storage instance that
\* holds nothing or an earlier history (the latter without plugins), and
\* every contract registry, stateless, against an empty plugin registry.
\* With a completion provider that returns batches of up to MaxCalls tool
\* calls: a contract without middleware, stateless, no plugin.
TurnConfigurations ==
  { [scenario |-> sc, contracts |-> <<Contract("weather", 1, TRUE)>>,
     storage |-> "instance", history |-> <<>>, provider |-> 1] :
      sc \in PluginScenarios }
  \cup
  { [scenario |-> NoPlugins, contracts |-> <<Contract("weather", 1, TRUE)>>,
     storage |-> "instance", history |-> PriorHistory, provider |-> 1] }
  \cup
  { [scenario |-> NoPlugins, contracts |-> cs, storage |-> "none",
     history |-> <<>>, provider |-> 1] : cs \in ContractRegistries }
  \cup
  { [scenario |-> NoPlugins, contracts |-> <<Contract("weather", 0, FALSE)>>,
     storage |-> "none", history |-> <<>>, provider |-> MaxCalls] }

\* ------------------------------------------------------------------------
\* State of one process call
\* ------------------------------------------------------------------------
VARIABLES
  pc,               \* position of the process call
  provider,         \* the completion provider: the most tool calls it returns
  plugins,          \* PluginManager.plugins
  faults,           \* which plugins' handlers / onError handlers throw
  contracts,        \* IntentFramework.contracts
  storage,          \* "none" (stateless) or "instance"
  store,            \* the history the storage provider holds
  messages,         \* executionContext.messages
  detectedIntent,   \* executionContext.detectedIntent
  injectedContext,  \* executionContext.injectedContext
  functionCalls,    \* executionContext.functionCalls
  contract,         \* the contract looked up for the detected intent
  mwIdx,            \* index of the middleware of the loop
  chatResponse,     \* the message of the main completion
  callIdx,          \* index of the tool call of the dispatcher's loop
  dispatch,         \* "idle", "running", "returned" or "threw"
  thrown,           \* the error caught by process, "none" if none
  response,         \* what process resolved with
  lastHook,         \* the most recent executeHook call and its handler calls
  trace,            \* every external call of the turn, in order
  detPc,            \* position of a detectIntent call
  detConfig,        \* strategy, threshold, intents and message of that call
  detResult,        \* what the detectIntent call resolved with
  llmCalls,         \* completion-provider calls made for intent detection
  llmOutcome,       \* how the completion call of detectIntentByLLM settled
  initialized,      \* ids of the plugins whose initialize was invoked
  cprovider,        \* the storage provider two concurrent calls share
  entry,            \* the list the provider holds for the conversation, or 0
  heap,             \* the message lists, by identity
  cpc,              \* position of each of the two concurrent calls
  cref,             \* the list each concurrent call holds as its messages
  clog,             \* the provider's reads and writes, in order
  retention,        \* config.contextRetention
  contextStore,     \* IntentFramework.contextStore, by conversation id
  retLog            \* the storeContext and clear calls made, in order

detVars == <<detPc, detConfig, detResult, llmCalls, llmOutcome>>
concVars == <<cprovider, entry, heap, cpc, cref, clog>>
retVars == <<retention, contextStore, retLog>>

\* the state outside a process call
aux == <<detVars, concVars, initialized, retVars>>

vars ==
  <<aux, pc, provider, plugins, faults, contracts, storage, store, messages, detectedIntent,
    injectedContext, functionCalls, contract, mwIdx, chatResponse, callIdx,
    dispatch, thrown, response, lastHook, trace>>

NoIntent == [kind |-> "none", id |-> "", confidence |-> {}]
NoMessage == [role |-> "assistant", content |-> Null, tool_call_id |-> 0,
              tool_calls |-> <<>>]
NoResponse == [text |-> "", terminal |-> "none", intentDetected |-> FALSE,
               functionsExecuted |-> 0, confidence |-> {}]
NoHook == [name |-> "", error |-> "none", calls |-> <<>>]

\* a confidence, score or threshold: the rational num / den
Frac(num, den) == [num |-> num, den |-> den]

\* an intent detection that found nothing (null), and the configuration of a
\* framework on which detectIntent is not being observed
NoMatch == [kind |-> "none", id |-> "", confidence |-> Frac(0, 1),
            matchedPattern |-> ""]
NoDetection ==
  [strategy |-> "pattern", threshold |-> [set |-> FALSE, pct |-> 0],
   intents |-> <<>>, messageLength |-> 1]

\* the completion provider was not asked to classify
NoOutcome == [kind |-> "none", intentId |-> Null, confidence |-> 0]

\* no detectIntent call is observed
DetectionAtRest ==
  /\ detPc = "idle"
  /\ detConfig = NoDetection
  /\ detResult = NoMatch
  /\ llmCalls = 0
  /\ llmOutcome = NoOutcome

\* the two process calls that may run concurrently on one conversation id
Calls == {1, 2}

\* no concurrent calls are observed
ConcurrentAtRest ==
  /\ cprovider = [kind |-> "none", stored |-> FALSE]
  /\ entry = 0
  /\ heap = <<>>
  /\ cpc = [c \in Calls |-> "idle"]
  /\ cref = [c \in Calls |-> 0]
  /\ clog = <<>>

\* the conversations whose retained contexts are observed
ConversationIds == {"c1", "c2"}

\* contextRetention.maxContexts left out of the configuration, or given
NotConfigured == [set |-> FALSE, value |-> 0]
Configured(n) == [set |-> TRUE, value |-> n]

\* no context retention is observed
RetentionAtRest ==
  /\ retention = [enabled |-> FALSE, maxContexts |-> NotConfigured]
  /\ contextStore = [id \in ConversationIds |-> <<>>]
  /\ retLog = <<>>

\* confidence values a detection may report (percent)
Confidences == {80}

\* what detectIntent may resolve with for a registry: no match, one of the
\* registered intents, or (when there is a pattern to compile) a throw
DetectionOutcomesUnregistered(cs) ==
  {NoIntent}
  \cup { [kind |-> "intent", id |-> id, confidence |-> {c}] :
           id \in {cs[i].id : i \in DOMAIN cs} \cup {"unregistered"},
           c \in Confidences }
  \cup { [kind |-> "throw", id |-> "", confidence |-> {}] : i \in DOMAIN cs }
DetectionOutcomes(cs) ==
  {NoIntent}
  \cup { [kind |-> "intent", id |-> cs[i].id, confidence |-> {c}] :
           i \in DOMAIN cs, c \in Confidences }
  \cup { [kind |-> "throw", id |-> "", confidence |-> {}] : i \in DOMAIN cs }

Event(kind, name, idx, info) == <<kind, name, idx, info>>
\* an external call that is handed a context value, or returns one
ContextEvent(kind, name, idx, info, ctx) == <<kind, name, idx, info, ctx>>

UserMessage == [role |-> "user", content |-> "userMessage", tool_call_id |-> 0,
                tool_calls |-> <<>>]

\* an executeHook call made by the turn: its result and the bookkeeping
Fire(hookName) ==
  executeHook(plugins, hookName, faults.throwers, faults.errThrowers)
HookRecord(hookName, r) ==
  [name |-> hookName, error |-> r.error, calls |-> r.calls]
\* the hook is handed the execution context, whose injectedContext is the
\* current one
HookEvent(hookName, idx, r) ==
  ContextEvent("executeHook", hookName, idx, r.error, injectedContext)

Init ==
  /\ pc = "start"
  /\ \E cfg \in TurnConfigurations :
       /\ plugins = cfg.scenario.plugins
       /\ faults = [throwers |-> cfg.scenario.throwers,
                    errThrowers |-> cfg.scenario.errThrowers]
       /\ contracts = cfg.contracts
       /\ storage = cfg.storage
       /\ provider = cfg.provider
       /\ store = cfg.history
  /\ messages = <<>>
  /\ detectedIntent = NoIntent
  /\ injectedContext = NoContext
  /\ functionCalls = <<>>
  /\ contract = NoContract
  /\ mwIdx = 0
  /\ chatResponse = NoMessage
  /\ callIdx = 0
  /\ dispatch = "idle"
  /\ thrown = "none"
  /\ response = NoResponse
  /\ lastHook = NoHook
  /\ trace = <<>>
  /\ DetectionAtRest
  /\ ConcurrentAtRest
  /\ initialized = {}
  /\ RetentionAtRest

\* ------------------------------------------------------------------------
\* process, one action per await
\* ------------------------------------------------------------------------
\* storageManager.getConversationHistory, then the push of the user message;
\* a failed read is logged and gives an empty history
LoadHistoryPropagating ==
  /\ pc = "start"
  /\ \E readOk \in BOOLEAN :
       /\ messages' = IF storage = "instance" /\ readOk
                       THEN Append(store, UserMessage) ELSE messages
       /\ trace' = IF storage = "instance"
                   THEN Append(trace, Event("storage",
                               "getConversationHistory", 0,
                               IF readOk THEN "return" ELSE "throw"))
                   ELSE trace
       /\ pc' = IF storage = "instance" /\ readOk THEN "hookBeforeDetection"
                 ELSE "rejected"
  /\ UNCHANGED <<aux, provider, plugins, faults, contracts, storage, store,
                 detectedIntent, injectedContext, functionCalls, contract,
                 mwIdx, chatResponse, callIdx, dispatch, thrown, response,
                 lastHook>>
LoadHistory ==
  /\ pc = "start"
  /\ \E readOk \in BOOLEAN :
       /\ messages' = Append(IF storage = "instance" /\ readOk THEN store
                             ELSE <<>>, UserMessage)
       /\ trace' = IF storage # "instance" THEN trace
                   ELSE IF readOk
                   THEN Append(trace, Event("storage",
                               "getConversationHistory", 0, "return"))
                   ELSE trace
                          \o << Event("storage", "getConversationHistory", 0,
                                      "throw"),
                                Event("log", "error", 0,
                                      "Failed to get conversation history") >>
  /\ pc' = "hookBeforeDetection"
  /\ UNCHANGED <<aux, provider, plugins, faults, contracts, storage, store, detectedIntent,
                 injectedContext, functionCalls, contract, mwIdx,
                 chatResponse, callIdx, dispatch, thrown, response, lastHook>>

HookBeforeDetection ==
  /\ pc = "hookBeforeDetection"
  /\ LET r == Fire("onBeforeIntentDetection")
     IN  /\ lastHook' = HookRecord("onBeforeIntentDetection", r)
         /\ trace' = Append(trace, HookEvent("onBeforeIntentDetection", 0, r))
         /\ IF r.error = "none"
            THEN pc' = "detect" /\ thrown' = thrown
            ELSE pc' = "catch" /\ thrown' = r.error
  /\ UNCHANGED <<aux, provider, plugins, faults, contracts, storage, store, messages,
                 detectedIntent, injectedContext, functionCalls, contract,
                 mwIdx, chatResponse, callIdx, dispatch, response>>

DetectIntent ==
  /\ pc = "detect"
  /\ \E o \in DetectionOutcomes(contracts) :
       /\ trace' = Append(trace, Event("detectIntent", "", 0, o.kind))
       /\ IF o.kind = "throw"
          THEN /\ pc' = "catch"
               /\ thrown' = "DetectionError"
               /\ detectedIntent' = detectedIntent
          ELSE /\ pc' = "hookAfterDetection"
               /\ thrown' = thrown
               /\ detectedIntent' = o
  /\ UNCHANGED <<aux, provider, plugins, faults, contracts, storage, store, messages,
                 injectedContext, functionCalls, contract, mwIdx,
                 chatResponse, callIdx, dispatch, response, lastHook>>

\* destroy, called while the process call waits for a hook or for detection,
\* before the contract lookup: the registry is cleared and the storage
\* provider shut down (errors of the provider are logged and swallowed; what
\* a shutdown does to the stored history is the provider's business, the
\* in-memory extension drops it)
Destroy ==
  /\ pc \in {"hookBeforeDetection", "detect", "hookAfterDetection"}
  /\ \A j \in DOMAIN trace : trace[j][1] # "destroy"
  /\ contracts' = <<>>
  /\ IF storage = "instance"
     THEN \/ /\ store' \in {store, <<>>}
             /\ trace' = trace
                   \o << Event("destroy", "contracts.clear", 0, "return"),
                         Event("storage", "shutdown", 0, "return") >>
          \/ /\ store' = store
             /\ trace' = trace
                   \o << Event("destroy", "contracts.clear", 0, "return"),
                         Event("storage", "shutdown", 0, "throw"),
                         Event("log", "error", 0,
                               "Failed to shut down storage extension") >>
     ELSE /\ store' = store
          /\ trace' = Append(trace, Event("destroy", "contracts.clear", 0,
                                          "return"))
  /\ UNCHANGED <<aux, pc, provider, plugins, faults, storage, messages,
                 detectedIntent, injectedContext, functionCalls, contract,
                 mwIdx, chatResponse, callIdx, dispatch, thrown, response,
                 lastHook>>

\* createFallbackResponse
createFallbackResponseCounting ==
  [text |-> FallbackText, terminal |-> "FALLBACK", intentDetected |-> FALSE,
   functionsExecuted |-> 1, confidence |-> {}]
createFallbackResponse ==
  [text |-> FallbackText, terminal |-> "FALLBACK", intentDetected |-> FALSE,
   functionsExecuted |-> 0, confidence |-> {}]

\* the after-detection hook, the fallback return and the contract lookup
HookAfterDetection ==
  /\ pc = "hookAfterDetection"
  /\ LET r == Fire("onAfterIntentDetection")
         c == contractsGet(contracts, detectedIntent.id)
     IN  /\ lastHook' = HookRecord("onAfterIntentDetection", r)
         /\ trace' = Append(trace, HookEvent("onAfterIntentDetection", 0, r))
         /\ IF r.error # "none"
            THEN /\ pc' = "catch" /\ thrown' = r.error
                 /\ UNCHANGED <<response, contract, mwIdx>>
            ELSE IF detectedIntent.kind = "none"
            THEN /\ pc' = "done" /\ response' = createFallbackResponse
                 /\ UNCHANGED <<thrown, contract, mwIdx>>
            ELSE IF c = NoContract
            THEN /\ pc' = "catch" /\ thrown' = "NoContractFound"
                 /\ UNCHANGED <<response, contract, mwIdx>>
            ELSE /\ contract' = c
                 /\ mwIdx' = 1
                 /\ pc' = IF c.middleware > 0 THEN "middleware"
                          ELSE "hookBeforeContext"
                 /\ UNCHANGED <<thrown, response>>
  /\ UNCHANGED <<aux, provider, plugins, faults, contracts, storage, store, messages,
                 detectedIntent, injectedContext, functionCalls,
                 chatResponse, callIdx, dispatch>>

\* createMiddlewareStoppedResponse
createMiddlewareStoppedResponseCounting ==
  [text |-> MiddlewareStoppedText, terminal |-> "MIDDLEWARE_STOPPED",
   intentDetected |-> TRUE, functionsExecuted |-> 1, confidence |-> {}]
createMiddlewareStoppedResponse ==
  [text |-> MiddlewareStoppedText, terminal |-> "MIDDLEWARE_STOPPED",
   intentDetected |-> TRUE, functionsExecuted |-> 0, confidence |-> {}]

\* if (result.modifiedContext) executionContext.injectedContext = it
ApplyModifiedContextAlways(ctx, result) == result.modifiedContext
ApplyModifiedContext(ctx, result) ==
  IF result.modifiedContext # NoContext THEN result.modifiedContext ELSE ctx

\* where the loop goes after middleware i of n returned result
AfterMiddlewareIgnoringHalt(result, i, n) ==
  IF i < n THEN "middleware" ELSE "hookBeforeContext"
AfterMiddleware(result, i, n) ==
  IF ~result.continue THEN "done"
  ELSE IF i < n THEN "middleware" ELSE "hookBeforeContext"

\* the loop calls middleware.execute with the current injected context
MiddlewareCall ==
  /\ pc = "middleware"
  /\ trace' = Append(trace, ContextEvent("middleware", "start", mwIdx,
                                         injectedContext.src,
                                         injectedContext))
  /\ pc' = "middlewareWait"
  /\ UNCHANGED <<aux, provider, plugins, faults, contracts, storage, store, messages,
                 detectedIntent, injectedContext, functionCalls, contract,
                 mwIdx, chatResponse, callIdx, dispatch, thrown, response,
                 lastHook>>

\* middleware.execute settles: a throw goes to the catch block, continue:false
\* returns the stopped response, a modifiedContext replaces the injected one
MiddlewareReturn ==
  /\ pc = "middlewareWait"
  /\ \E result \in MiddlewareResults(mwIdx) :
       IF result.kind = "throw"
       THEN /\ trace' = Append(trace, ContextEvent("middleware", "end", mwIdx,
                                                   "throw", NoContext))
            /\ pc' = "catch"
            /\ thrown' = "MiddlewareError"
            /\ UNCHANGED <<injectedContext, mwIdx, response>>
       ELSE LET next == AfterMiddleware(result, mwIdx, contract.middleware)
            IN  /\ trace' = Append(trace, ContextEvent("middleware", "end",
                                     mwIdx,
                                     IF result.continue THEN "continue"
                                     ELSE "halt", result.modifiedContext))
                /\ pc' = next
                /\ thrown' = thrown
                /\ IF next = "done"
                   THEN /\ response' = createMiddlewareStoppedResponse
                        /\ UNCHANGED <<injectedContext, mwIdx>>
                   ELSE /\ response' = response
                        /\ injectedContext' =
                             ApplyModifiedContext(injectedContext, result)
                        /\ mwIdx' = mwIdx + 1
  /\ UNCHANGED <<aux, provider, plugins, faults, contracts, storage, store, messages,
                 detectedIntent, functionCalls, contract, chatResponse,
                 callIdx, dispatch, lastHook>>

HookBeforeContext ==
  /\ pc = "hookBeforeContext"
  /\ LET r == Fire("onBeforeContextInjection")
     IN  /\ lastHook' = HookRecord("onBeforeContextInjection", r)
         /\ trace' = Append(trace, HookEvent("onBeforeContextInjection", 0, r))
         /\ IF r.error = "none"
            THEN pc' = "contextProvider" /\ thrown' = thrown
            ELSE pc' = "catch" /\ thrown' = r.error
  /\ UNCHANGED <<aux, provider, plugins, faults, contracts, storage, store, messages,
                 detectedIntent, injectedContext, functionCalls, contract,
                 mwIdx, chatResponse, callIdx, dispatch, response>>

\* the context provider is called when the contract has one and no context
\* was injected yet; its failure is logged and the turn goes on
NeedsProviderAlways(c, ctx) == c.contextProvider
NeedsProvider(c, ctx) == c.contextProvider /\ ctx = NoContext

\* where the turn goes once the context provider settled
AfterContextProviderFailing(ok) == IF ok THEN "hookAfterContext" ELSE "catch"
AfterContextProvider(ok) == "hookAfterContext"

ProvideContextRetrying ==
  /\ pc = "contextProvider"
  /\ IF NeedsProvider(contract, injectedContext)
     THEN \E ok \in BOOLEAN :
            /\ injectedContext' = ProviderContext
            /\ trace' = IF ok
                        THEN Append(trace, ContextEvent("contextProvider", "",
                                             0, "return", ProviderContext))
                        ELSE trace
                               \o << ContextEvent("contextProvider", "", 0,
                                                  "throw", NoContext),
                                     ContextEvent("contextProvider", "", 0,
                                                  "return", ProviderContext) >>
            /\ pc' = AfterContextProvider(ok)
     ELSE /\ pc' = "hookAfterContext"
          /\ UNCHANGED <<injectedContext, trace>>
  /\ UNCHANGED <<aux, provider, plugins, faults, contracts, storage, store, messages,
                 detectedIntent, functionCalls, contract, mwIdx,
                 chatResponse, callIdx, dispatch, thrown, response, lastHook>>
ProvideContext ==
  /\ pc = "contextProvider"
  /\ IF NeedsProvider(contract, injectedContext)
     THEN \E ok \in BOOLEAN :
            /\ injectedContext' = IF ok THEN ProviderContext
                                  ELSE injectedContext
            /\ trace' = IF ok
                        THEN Append(trace, ContextEvent("contextProvider", "",
                                             0, "return", ProviderContext))
                        ELSE trace
                               \o << ContextEvent("contextProvider", "", 0,
                                                  "throw", NoContext),
                                     Event("log", "error", 0,
                                           "Failed to provide context") >>
            /\ pc' = AfterContextProvider(ok)
     ELSE /\ pc' = "hookAfterContext"
          /\ UNCHANGED <<injectedContext, trace>>
  /\ UNCHANGED <<aux, provider, plugins, faults, contracts, storage, store, messages,
                 detectedIntent, functionCalls, contract, mwIdx,
                 chatResponse, callIdx, dispatch, thrown, response, lastHook>>

HookAfterContext ==
  /\ pc = "hookAfterContext"
  /\ LET r == Fire("onAfterContextInjection")
     IN  /\ lastHook' = HookRecord("onAfterContextInjection", r)
         /\ trace' = Append(trace, HookEvent("onAfterContextInjection", 0, r))
         /\ IF r.error = "none"
            THEN pc' = "completionMain" /\ thrown' = thrown
            ELSE pc' = "catch" /\ thrown' = r.error
  /\ UNCHANGED <<aux, provider, plugins, faults, contracts, storage, store, messages,
                 detectedIntent, injectedContext, functionCalls, contract,
                 mwIdx, chatResponse, callIdx, dispatch, response>>

\* messages a completion may resolve with: text (or empty content) and no
\* tool calls, or a batch of tool calls
AssistantText(content) ==
  [role |-> "assistant", content |-> content, tool_call_id |-> 0,
   tool_calls |-> <<>>]
AssistantToolCalls(batch) ==
  [role |-> "assistant", content |-> Null, tool_call_id |-> 0,
   tool_calls |-> batch]

\* callOpenAIWithFunctions: a throw goes to the catch block; without tool
\* calls the message is pushed; with tool calls the dispatcher starts
CallCompletionMain ==
  /\ pc = "completionMain"
  /\ \/ /\ trace' = Append(trace, Event("completion", "main", 0, "throw"))
        /\ pc' = "catch"
        /\ thrown' = "CompletionError"
        /\ UNCHANGED <<messages, chatResponse, callIdx, dispatch>>
     \/ \E content \in {"text", Null} :
          /\ trace' = Append(trace, Event("completion", "main", 0, "text"))
          /\ chatResponse' = AssistantText(content)
          /\ messages' = Append(messages, AssistantText(content))
          /\ pc' = "hookBeforeResponse"
          /\ UNCHANGED <<thrown, callIdx, dispatch>>
     \/ \E batch \in {b \in ToolBatches : Len(b) <= provider} :
          /\ trace' = Append(trace, Event("completion", "main", 0,
                                          "tool_calls"))
          /\ chatResponse' = AssistantToolCalls(batch)
          /\ callIdx' = 1
          /\ dispatch' = "running"
          /\ pc' = "dispatch"
          /\ UNCHANGED <<thrown, messages>>
  /\ UNCHANGED <<aux, provider, plugins, faults, contracts, storage, store, detectedIntent,
                 injectedContext, functionCalls, contract, mwIdx, response,
                 lastHook>>

\* ------------------------------------------------------------------------
\* executeFunctionCalls
\* ------------------------------------------------------------------------
toolCalls == chatResponse.tool_calls

\* the tool call the k-th iteration of the loop handles
ToolCallAtReversed(batch, k) == batch[Len(batch) - k + 1]
ToolCallAt(batch, k) == batch[k]

\* the context argument of a handler call
HandlerContextAlways(func, ctx) == ctx
HandlerContext(func, ctx) == IF func.requiresContext THEN ctx ELSE NoContext

\* the arguments the function hooks are called with after the execution
\* context: the function's id and the parsed parameters before the call; the
\* function's id and the result after a return; the function's id, null and
\* the error string after a throw
BeforeArgs(func, parameters) == <<func.id, parameters>>
AfterArgsAsSuccess(func, outcome) == <<func.id, outcome.value>>
AfterArgs(func, outcome) ==
  IF outcome.kind = "return" THEN <<func.id, outcome.value>>
  ELSE <<func.id, Null, outcome.value>>
FunctionHookEvent(hookName, idx, r, args) ==
  <<"executeHook", hookName, idx, r.error, injectedContext, args>>

\* one iteration up to the handler call: JSON.parse (a throw leaves the
\* dispatcher), the lookup (an unknown name is logged and skipped), the
\* before hook, the call of the handler
DispatchCall ==
  /\ pc = "dispatch"
  /\ callIdx <= Len(toolCalls)
  /\ LET tc == ToolCallAt(toolCalls, callIdx)
         parsed == JSONParse(tc.arguments)
         fi == FindFunction(contract.functions, tc.name)
         r == Fire("onBeforeFunctionExecution")
     IN  IF ~parsed.ok
         THEN /\ trace' = Append(trace, Event("JSON.parse", tc.name, tc.id,
                                              "throw"))
              /\ pc' = "catch"
              /\ thrown' = "SyntaxError"
              /\ dispatch' = "threw"
              /\ UNCHANGED <<callIdx, lastHook>>
         ELSE IF fi = 0
         THEN /\ trace' = Append(trace, Event("log", "error", tc.id,
                                              "Function not found"))
              /\ callIdx' = callIdx + 1
              /\ UNCHANGED <<pc, thrown, dispatch, lastHook>>
         ELSE /\ lastHook' = HookRecord("onBeforeFunctionExecution", r)
              /\ callIdx' = callIdx
              /\ IF r.error # "none"
                 THEN /\ trace' = Append(trace,
                          FunctionHookEvent("onBeforeFunctionExecution",
                              tc.id, r,
                              BeforeArgs(contract.functions[fi],
                                         parsed.value)))
                      /\ pc' = "catch"
                      /\ thrown' = r.error
                      /\ dispatch' = "threw"
                 ELSE /\ trace' = trace \o
                          << FunctionHookEvent("onBeforeFunctionExecution",
                                 tc.id, r,
                                 BeforeArgs(contract.functions[fi],
                                            parsed.value)),
                             ContextEvent("handler", "start", tc.id,
                                   HandlerContext(contract.functions[fi],
                                                  injectedContext).src,
                                   HandlerContext(contract.functions[fi],
                                                  injectedContext)) >>
                      /\ pc' = "handlerWait"
                      /\ UNCHANGED <<thrown, dispatch>>
  /\ UNCHANGED <<aux, provider, plugins, faults, contracts, storage, store, messages,
                 detectedIntent, injectedContext, functionCalls, contract,
                 mwIdx, chatResponse, response>>

\* the Function Call record of a settled handler call
FunctionCallRecord(tc, outcome) ==
  [functionId |-> tc.id,
   parameters |-> JSONParse(tc.arguments).value,
   result |-> IF outcome.kind = "return" THEN outcome.value ELSE Undefined,
   error |-> IF outcome.kind = "throw" THEN outcome.value ELSE Undefined]

\* the handler settles: the record gets result or error, the after hook is
\* fired, the record is pushed.  A throw of the after hook leaves the
\* dispatcher before the push (on the success path it is first caught by the
\* catch block, whose own after hook throws again).
HandlerReturn ==
  /\ pc = "handlerWait"
  /\ \E outcome \in HandlerOutcomes :
       LET tc == ToolCallAt(toolCalls, callIdx)
           r == Fire("onAfterFunctionExecution")
           settled == << Event("handler", "end", tc.id, outcome.kind) >>
                      \o (IF outcome.kind = "throw"
                          THEN << Event("log", "error", tc.id,
                                        "Function failed") >>
                          ELSE <<>>)
           func == contract.functions[FindFunction(contract.functions,
                                                   tc.name)]
           fired == FunctionHookEvent("onAfterFunctionExecution", tc.id, r,
                                      AfterArgs(func, outcome))
           firedInCatch ==
             FunctionHookEvent("onAfterFunctionExecution", tc.id, r,
                 AfterArgs(func, [kind |-> "throw", value |-> r.error]))
       IN  /\ lastHook' = HookRecord("onAfterFunctionExecution", r)
           /\ IF r.error # "none"
              THEN /\ trace' = trace \o settled \o
                               (IF outcome.kind = "return"
                                THEN <<fired, firedInCatch>>
                                ELSE <<fired>>)
                   /\ pc' = "catch"
                   /\ thrown' = r.error
                   /\ dispatch' = "threw"
                   /\ UNCHANGED <<functionCalls, callIdx>>
              ELSE /\ trace' = trace \o settled \o <<fired>>
                   /\ functionCalls' =
                        PushRecord(functionCalls,
                                   FunctionCallRecord(tc, outcome))
                   /\ callIdx' = callIdx + 1
                   /\ pc' = "dispatch"
                   /\ UNCHANGED <<thrown, dispatch>>
  /\ UNCHANGED <<aux, provider, plugins, faults, contracts, storage, store, messages,
                 detectedIntent, injectedContext, contract, mwIdx,
                 chatResponse, response>>

\* the tool messages pushed for the records, in record order
ToolMessages(calls) == [i \in DOMAIN calls |-> ToolMessage(calls[i])]

\* the dispatcher returns: the assistant message and the tool results are
\* pushed and the before-response hook is fired
DispatchReturn ==
  /\ pc = "dispatch"
  /\ callIdx > Len(toolCalls)
  /\ dispatch' = "returned"
  /\ messages' = Append(messages, chatResponse) \o ToolMessages(functionCalls)
  /\ LET r == Fire("onBeforeResponseGeneration")
     IN  /\ lastHook' = HookRecord("onBeforeResponseGeneration", r)
         /\ trace' = Append(trace,
                            HookEvent("onBeforeResponseGeneration", 0, r))
         /\ IF r.error = "none"
            THEN pc' = "completionFinal" /\ thrown' = thrown
            ELSE pc' = "catch" /\ thrown' = r.error
  /\ UNCHANGED <<aux, provider, plugins, faults, contracts, storage, store, detectedIntent,
                 injectedContext, functionCalls, contract, mwIdx,
                 chatResponse, callIdx, response>>

\* ------------------------------------------------------------------------
\* process, continued
\* ------------------------------------------------------------------------
\* the second completion call, its message pushed
CallCompletionFinal ==
  /\ pc = "completionFinal"
  /\ \/ /\ trace' = Append(trace, Event("completion", "final", 0, "throw"))
        /\ pc' = "catch"
        /\ thrown' = "CompletionError"
        /\ UNCHANGED messages
     \/ \E content \in {"text", Null} :
          /\ trace' = Append(trace, Event("completion", "final", 0, "text"))
          /\ messages' = Append(messages, AssistantText(content))
          /\ pc' = "persist"
          /\ UNCHANGED thrown
  /\ UNCHANGED <<aux, provider, plugins, faults, contracts, storage, store, detectedIntent,
                 injectedContext, functionCalls, contract, mwIdx,
                 chatResponse, callIdx, dispatch, response, lastHook>>

\* the plain path: the before-response hook after the message was pushed
HookBeforeResponseSkipped ==
  /\ pc = "hookBeforeResponse"
  /\ pc' = "persist"
  /\ UNCHANGED <<aux, provider, plugins, faults, contracts, storage, store, messages,
                 detectedIntent, injectedContext, functionCalls, contract,
                 mwIdx, chatResponse, callIdx, dispatch, response, thrown,
                 lastHook, trace>>
HookBeforeResponse ==
  /\ pc = "hookBeforeResponse"
  /\ LET r == Fire("onBeforeResponseGeneration")
     IN  /\ lastHook' = HookRecord("onBeforeResponseGeneration", r)
         /\ trace' = Append(trace,
                            HookEvent("onBeforeResponseGeneration", 0, r))
         /\ IF r.error = "none"
            THEN pc' = "persist" /\ thrown' = thrown
            ELSE pc' = "catch" /\ thrown' = r.error
  /\ UNCHANGED <<aux, provider, plugins, faults, contracts, storage, store, messages,
                 detectedIntent, injectedContext, functionCalls, contract,
                 mwIdx, chatResponse, callIdx, dispatch, response>>

\* storageManager.updateConversationHistory: without a storage instance
\* nothing is called; a failed write is logged and swallowed
Persist ==
  /\ pc = "persist"
  /\ IF storage = "instance"
     THEN \E writeOk \in BOOLEAN :
            /\ store' = IF writeOk THEN messages ELSE store
            /\ trace' = IF writeOk
                        THEN Append(trace, Event("storage",
                               "updateConversationHistory", 0, "return"))
                        ELSE trace
                               \o << Event("storage",
                                           "updateConversationHistory", 0,
                                           "throw"),
                                     Event("log", "error", 0,
                                       "Failed to update conversation history") >>
     ELSE UNCHANGED <<store, trace>>
  /\ pc' = "hookAfterResponse"
  /\ UNCHANGED <<aux, provider, plugins, faults, contracts, storage, messages,
                 detectedIntent, injectedContext, functionCalls, contract,
                 mwIdx, chatResponse, callIdx, dispatch, thrown, response,
                 lastHook>>

\* the response of the two successful paths
SuccessResponse ==
  LET content == messages[Len(messages)].content
  IN  IF toolCalls # <<>>
      THEN [text |-> IF Truthy(content) THEN content
                     ELSE FunctionExecutedText,
            terminal |-> "FUNCTION_RESPONSE",
            intentDetected |-> TRUE,
            functionsExecuted |-> Len(functionCalls),
            confidence |-> detectedIntent.confidence]
      ELSE [text |-> IF Truthy(content) THEN content ELSE NoResponseText,
            terminal |-> "PLAIN_RESPONSE",
            intentDetected |-> TRUE,
            functionsExecuted |-> 0,
            confidence |-> detectedIntent.confidence]

HookAfterResponse ==
  /\ pc = "hookAfterResponse"
  /\ LET r == Fire("onAfterResponseGeneration")
     IN  /\ lastHook' = HookRecord("onAfterResponseGeneration", r)
         /\ trace' = Append(trace,
                            HookEvent("onAfterResponseGeneration", 0, r))
         /\ IF r.error = "none"
            THEN pc' = "done" /\ response' = SuccessResponse
                 /\ thrown' = thrown
            ELSE pc' = "catch" /\ thrown' = r.error
                 /\ response' = response
  /\ UNCHANGED <<aux, provider, plugins, faults, contracts, storage, store, messages,
                 detectedIntent, injectedContext, functionCalls, contract,
                 mwIdx, chatResponse, callIdx, dispatch>>

\* the response of the catch block
ErrorResponseWithoutProgress ==
  [text |-> ErrorText, terminal |-> "ERROR_RESPONSE",
   intentDetected |-> FALSE, functionsExecuted |-> 0, confidence |-> {}]
ErrorResponse ==
  [text |-> ErrorText, terminal |-> "ERROR_RESPONSE",
   intentDetected |-> detectedIntent.kind = "intent",
   functionsExecuted |-> Len(functionCalls),
   confidence |-> detectedIntent.confidence]

\* the catch block: log, fire onError, return the error response.  A throw
\* of executeHook here is not caught: the promise of process rejects.
Catch ==
  /\ pc = "catch"
  /\ LET r == Fire("onError")
     IN  /\ lastHook' = HookRecord("onError", r)
         /\ trace' = trace \o
                     << Event("log", "error", 0, "Error processing message"),
                        HookEvent("onError", 0, r) >>
         /\ IF r.error = "none"
            THEN pc' = "done" /\ response' = ErrorResponse
            ELSE pc' = "rejected" /\ response' = response
  /\ UNCHANGED <<aux, provider, plugins, faults, contracts, storage, store, messages,
                 detectedIntent, injectedContext, functionCalls, contract,
                 mwIdx, chatResponse, callIdx, dispatch, thrown>>

\* clearConversationHistory, called once the turn is over: without a storage
\* instance nothing is called; a failed clear is logged and swallowed
ClearConversationHistory ==
  /\ pc = "done"
  /\ IF storage = "instance"
     THEN \E clearOk \in BOOLEAN :
            /\ store' = IF clearOk THEN <<>> ELSE store
            /\ trace' = IF clearOk
                        THEN Append(trace, Event("storage",
                               "clearConversationHistory", 0, "return"))
                        ELSE trace
                               \o << Event("storage",
                                           "clearConversationHistory", 0,
                                           "throw"),
                                     Event("log", "error", 0,
                                       "Failed to clear conversation history") >>
     ELSE UNCHANGED <<store, trace>>
  /\ pc' = "cleared"
  /\ UNCHANGED <<aux, provider, plugins, faults, contracts, storage, messages,
                 detectedIntent, injectedContext, functionCalls, contract,
                 mwIdx, chatResponse, callIdx, dispatch, thrown, response,
                 lastHook>>

Next ==
  \/ LoadHistory
  \/ HookBeforeDetection
  \/ DetectIntent
  \/ HookAfterDetection
  \/ MiddlewareCall
  \/ MiddlewareReturn
  \/ HookBeforeContext
  \/ ProvideContext
  \/ HookAfterContext
  \/ CallCompletionMain
  \/ DispatchCall
  \/ HandlerReturn
  \/ DispatchReturn
  \/ CallCompletionFinal
  \/ HookBeforeResponse
  \/ Persist
  \/ HookAfterResponse
  \/ Catch
  \/ ClearConversationHistory
  \/ Destroy

Spec == Init /\ [][Next]_vars

\* ------------------------------------------------------------------------
\* Intent detection: detectIntentByPattern, detectIntentByLLM and the
\* strategy switch of IntentFramework.detectIntent
\* ------------------------------------------------------------------------
\* largest length of a pattern string
MaxPatternLen == 5

\* a >= b and a > b on rationals with positive denominators
GE(a, b) == a.num * b.den >= b.num * a.den
GT(a, b) == a.num * b.den > b.num * a.den
\* Math.min
MinFrac(a, b) == IF GE(a, b) THEN b ELSE a

\* lengths of the user message
UserMessageLengths == {10}

\* a pattern of an intent: its name, the length of its string and whether
\* its case-insensitive regex matches the user message
Pattern(name, len, matches) == [name |-> name, len |-> len, matches |-> matches]

\* the intents of the registered contracts a detection is run against: none,
\* one intent with one pattern of any length (the empty pattern included: its
\* regex matches every message), or two intents with three patterns of two
\* lengths
DetectionIntents ==
  {<<>>}
  \cup { << [id |-> "weather",
             patterns |-> <<Pattern("p1", l, m \/ l = 0)>>] >> :
           l \in 0..MaxPatternLen, m \in BOOLEAN }
  \cup { << [id |-> "weather",
             patterns |-> <<Pattern("p1", l[1], m[1]),
                            Pattern("p2", l[2], m[2])>>],
            [id |-> "greet", patterns |-> <<Pattern("p3", l[3], m[3])>>] >> :
           l \in [1..3 -> {2, 4}], m \in [1..3 -> BOOLEAN] }

\* config.intentDetection.confidenceThreshold: unset, or a percentage
Thresholds ==
  {[set |-> FALSE, pct |-> 0]}
  \cup {[set |-> TRUE, pct |-> p] : p \in {0, 30, 50, 70, 100}}

\* config.intentDetection.strategy; "embedding" is declared and has no case
Strategies == {"pattern", "llm", "hybrid", "embedding"}

\* the parameter default of detectIntentByPattern (= 0.3): used when the
\* argument is undefined
PatternThreshold(t) == IF t.set THEN Frac(t.pct, 100) ELSE Frac(30, 100)
\* confidenceThreshold || 0.7 and confidenceThreshold || 0.5: an unset
\* threshold and a threshold of 0 are both falsy
HybridThreshold(t) ==
  IF t.set /\ t.pct # 0 THEN Frac(t.pct, 100) ELSE Frac(70, 100)
LLMThreshold(t) ==
  IF t.set /\ t.pct # 0 THEN Frac(t.pct, 100) ELSE Frac(50, 100)

\* the (intent, pattern) pairs in the order of the two nested loops
PairsOf(intent) ==
  [j \in DOMAIN intent.patterns |->
     [intent |-> intent.id, pattern |-> intent.patterns[j]]]
RECURSIVE PatternPairs(_)
PatternPairs(intents) ==
  IF intents = <<>> THEN <<>>
  ELSE PairsOf(Head(intents)) \o PatternPairs(Tail(intents))

\* if (score > highestScore): the comparison that makes a match the best one
ReplacesOnTie(score, highestScore) == GE(score, highestScore)
Replaces(score, highestScore) == GT(score, highestScore)

\* the loops of detectIntentByPattern: a matching pattern whose score is
\* strictly above the highest seen becomes the best match
RECURSIVE BestMatch(_, _, _, _)
BestMatch(pairs, messageLength, bestMatch, highestScore) ==
  IF pairs = <<>> THEN bestMatch
  ELSE LET p == Head(pairs)
           score == Frac(p.pattern.len, messageLength)
       IN  IF p.pattern.matches /\ Replaces(score, highestScore)
           THEN BestMatch(Tail(pairs), messageLength,
                  [kind |-> "intent", id |-> p.intent,
                   confidence |-> MinFrac(Frac(2 * p.pattern.len,
                                               messageLength), Frac(1, 1)),
                   matchedPattern |-> p.pattern.name],
                  score)
           ELSE BestMatch(Tail(pairs), messageLength, bestMatch, highestScore)

detectIntentByPattern(messageLength, intents, threshold) ==
  LET best == BestMatch(PatternPairs(intents), messageLength, NoMatch,
                        Frac(0, 1))
  IN  IF best # NoMatch /\ GE(best.confidence, PatternThreshold(threshold))
      THEN best ELSE NoMatch

\* what the completion provider may do when asked to classify: throw, answer
\* with text that is not JSON, or answer with a JSON object, whose intentId
\* is missing, null, the id of some intent or another string
LLMOutcomes ==
  {[kind |-> k, intentId |-> Null, confidence |-> 0] : k \in {"throw", "text"}}
  \cup {[kind |-> "json", intentId |-> i, confidence |-> c] :
          i \in {Undefined, Null, "weather", "greet", "unknown"},
          c \in {40, 60, 90}}

detectIntentByLLM(intents, outcome, threshold) ==
  IF outcome.kind # "json" THEN NoMatch
  ELSE IF /\ Truthy(outcome.intentId)
          /\ GE(Frac(outcome.confidence, 100), LLMThreshold(threshold))
          /\ \E i \in DOMAIN intents : intents[i].id = outcome.intentId
  THEN [kind |-> "intent", id |-> outcome.intentId,
        confidence |-> Frac(outcome.confidence, 100),
        matchedPattern |-> "LLM-based detection"]
  ELSE NoMatch

\* the variables of a process call, and their values when no call is observed
turnVars ==
  <<provider, plugins, faults, contracts, storage, store, messages,
    detectedIntent, injectedContext, functionCalls, contract, mwIdx,
    chatResponse, callIdx, dispatch, thrown, response, lastHook, trace,
    retVars>>

turnRest ==
  <<provider, plugins, faults, contracts, storage, store, messages,
    detectedIntent, injectedContext, functionCalls, contract, mwIdx,
    chatResponse, callIdx, dispatch, thrown, response, lastHook, trace>>

TurnAtRest ==
  /\ provider = 1
  /\ plugins = <<>>
  /\ faults = [throwers |-> {}, errThrowers |-> {}]
  /\ contracts = <<>>
  /\ storage = "none"
  /\ store = <<>>
  /\ messages = <<>>
  /\ detectedIntent = NoIntent
  /\ injectedContext = NoContext
  /\ functionCalls = <<>>
  /\ contract = NoContract
  /\ mwIdx = 0
  /\ chatResponse = NoMessage
  /\ callIdx = 0
  /\ dispatch = "idle"
  /\ thrown = "none"
  /\ response = NoResponse
  /\ lastHook = NoHook
  /\ trace = <<>>

\* a detectIntent call with any strategy, threshold, intents and message
DetectInit ==
  /\ pc = "detect"
  /\ TurnAtRest
  /\ detPc = "start"
  /\ detConfig \in [strategy : Strategies, threshold : Thresholds,
                    intents : DetectionIntents,
                    messageLength : UserMessageLengths]
  /\ detResult = NoMatch
  /\ llmCalls = 0
  /\ llmOutcome = NoOutcome
  /\ ConcurrentAtRest
  /\ initialized = {}
  /\ RetentionAtRest

\* the pattern matcher's result for the configuration of the call
PatternResult ==
  detectIntentByPattern(detConfig.messageLength, detConfig.intents,
                        detConfig.threshold)

\* the switch of detectIntent: which strategies reach the completion
\* provider. llm always does, hybrid does unless the pattern result clears
\* the hybrid threshold, pattern and the default branch never do
ToProviderUnlessPattern(config) ==
  \/ config.strategy \notin {"pattern", "hybrid"}
  \/ /\ config.strategy = "hybrid"
     /\ ~( /\ PatternResult # NoMatch
           /\ GE(PatternResult.confidence, HybridThreshold(config.threshold)) )
ToProvider(config) ==
  \/ config.strategy = "llm"
  \/ /\ config.strategy = "hybrid"
     /\ ~( /\ PatternResult # NoMatch
           /\ GE(PatternResult.confidence, HybridThreshold(config.threshold)) )

\* the switch of detectIntent up to its first completion-provider call:
\* pattern (and any unknown strategy) returns the pattern result, llm goes to
\* the provider, hybrid returns the pattern result if it clears the hybrid
\* threshold and goes to the provider otherwise
DetectIntentSwitch ==
  /\ detPc = "start"
  /\ IF ToProvider(detConfig)
     THEN detPc' = "llm" /\ detResult' = detResult
     ELSE detPc' = "done" /\ detResult' = PatternResult
  /\ UNCHANGED <<detConfig, llmCalls, llmOutcome, concVars, initialized, pc,
                 turnVars>>

\* openai.chat.completions.create settles inside detectIntentByLLM
DetectIntentByLLMReturn ==
  /\ detPc = "llm"
  /\ \E outcome \in LLMOutcomes :
       /\ llmOutcome' = outcome
       /\ detResult' = detectIntentByLLM(detConfig.intents, outcome,
                                         detConfig.threshold)
  /\ llmCalls' = llmCalls + 1
  /\ detPc' = "done"
  /\ UNCHANGED <<detConfig, concVars, initialized, pc, turnVars>>

DetectNext == DetectIntentSwitch \/ DetectIntentByLLMReturn

DetectSpec == DetectInit /\ [][DetectNext]_vars

\* ------------------------------------------------------------------------
\* Two process calls on one conversation id, and the storage provider they
\* share: one that stores and returns copies (the Redis extension: JSON text)
\* or the in-memory extension (a Map of the lists it was handed)
\* ------------------------------------------------------------------------
\* the messages the calls push
UserOf == [c \in Calls |-> IF c = 1 THEN "u1" ELSE "u2"]
AssistantOf == [c \in Calls |-> IF c = 1 THEN "a1" ELSE "a2"]
StoredBefore == <<"h">>

\* the list call c gets when the provider builds a new one for it
FreshList(c) == c + 1

\* the list a read hands to call c: the in-memory extension returns the very
\* list it holds (conversationStore.get(id) || []), the copying one a new list
ReadListAlwaysFresh(kind, e, c) == FreshList(c)
ReadList(kind, e, c) ==
  IF kind = "inMemory" /\ e # 0 THEN e ELSE FreshList(c)

ConcurrentInit ==
  /\ pc = "idle"
  /\ TurnAtRest
  /\ DetectionAtRest
  /\ initialized = {}
  /\ RetentionAtRest
  /\ cprovider \in [kind : {"copying", "inMemory"}, stored : BOOLEAN]
  /\ entry = IF cprovider.stored THEN 1 ELSE 0
  /\ heap = [l \in 1..3 |-> IF l = 1 /\ cprovider.stored THEN StoredBefore
                            ELSE <<>>]
  /\ cpc = [c \in Calls |-> "start"]
  /\ cref = [c \in Calls |-> 0]
  /\ clog = <<>>

\* storage.getConversationHistory runs for call c
ReadHistory(c) ==
  /\ cpc[c] = "start"
  /\ LET l == ReadList(cprovider.kind, entry, c)
     IN  /\ cref' = [cref EXCEPT ![c] = l]
         /\ heap' = IF l = entry THEN heap
                    ELSE [heap EXCEPT ![l] = IF entry = 0 THEN <<>>
                                             ELSE heap[entry]]
  /\ clog' = Append(clog, <<"read", c>>)
  /\ cpc' = [cpc EXCEPT ![c] = "read"]
  /\ UNCHANGED <<cprovider, entry, detVars, initialized, pc, turnVars>>

\* call c resumes after the read and pushes its user message
PushUserMessage(c) ==
  /\ cpc[c] = "read"
  /\ heap' = [heap EXCEPT ![cref[c]] = Append(@, UserOf[c])]
  /\ cpc' = [cpc EXCEPT ![c] = "turn"]
  /\ UNCHANGED <<cprovider, entry, cref, clog, detVars, initialized, pc,
                 turnVars>>

\* the completion of call c resolved: the assistant message is pushed
PushAssistantMessage(c) ==
  /\ cpc[c] = "turn"
  /\ heap' = [heap EXCEPT ![cref[c]] = Append(@, AssistantOf[c])]
  /\ cpc' = [cpc EXCEPT ![c] = "persist"]
  /\ UNCHANGED <<cprovider, entry, cref, clog, detVars, initialized, pc,
                 turnVars>>

\* call c ends in a fallback, stopped or error response: nothing is written
EndWithoutPersist(c) ==
  /\ cpc[c] = "turn"
  /\ cpc' = [cpc EXCEPT ![c] = "done"]
  /\ UNCHANGED <<cprovider, entry, heap, cref, clog, detVars, initialized,
                 pc, turnVars>>

\* storage.updateConversationHistory runs for call c: the copying provider
\* stores the contents, the in-memory one the list itself
WriteHistory(c) ==
  /\ cpc[c] = "persist"
  /\ IF cprovider.kind = "copying"
     THEN /\ heap' = [heap EXCEPT ![1] = heap[cref[c]]]
          /\ entry' = 1
     ELSE /\ heap' = heap
          /\ entry' = cref[c]
  /\ clog' = Append(clog, <<"write", c>>)
  /\ cpc' = [cpc EXCEPT ![c] = "done"]
  /\ UNCHANGED <<cprovider, cref, detVars, initialized, pc, turnVars>>

ConcurrentNext ==
  \E c \in Calls :
    \/ ReadHistory(c)
    \/ PushUserMessage(c)
    \/ PushAssistantMessage(c)
    \/ EndWithoutPersist(c)
    \/ WriteHistory(c)

ConcurrentSpec == ConcurrentInit /\ [][ConcurrentNext]_vars

\* ------------------------------------------------------------------------
\* The plugin registry over time: registerPlugin and shutdown as the
\* framework calls them, executeHook as a process call fires it, and
\* unregisterPlugin and initialize, which only code holding the
\* PluginManager singleton calls (the framework never does)
\* ------------------------------------------------------------------------
\* largest number of plugins in the registry
MaxPlugins == 2

\* the plugins offered for registration
PluginPool ==
  { Plugin("A", 1, <<"B">>, HookNames),
    Plugin("A", 0, <<"B">>, HookNames),
    Plugin("A", 0, <<"A">>, HookNames),
    Plugin("B", 0, <<>>, HookNames),
    Plugin("B", 0, <<"A">>, HookNames),
    Plugin("C", 1, <<>>, NoErrorHooks) }

PoolIds == {p.id : p \in PluginPool}

\* the hooks fired on the registry
LifecycleHooks == {"onBeforeIntentDetection", "onError"}

\* which plugins' methods throw
FaultSets ==
  { [throwers |-> {}, errThrowers |-> {}],
    [throwers |-> {"A", "C"}, errThrowers |-> {"A"}],
    [throwers |-> {"B"}, errThrowers |-> {}] }

\* the framework is constructed on an empty registry
LifecycleInit ==
  /\ pc = "idle"
  /\ provider = 1
  /\ plugins = <<>>
  /\ faults \in FaultSets
  /\ contracts = <<>>
  /\ storage = "none"
  /\ store = <<>>
  /\ messages = <<>>
  /\ detectedIntent = NoIntent
  /\ injectedContext = NoContext
  /\ functionCalls = <<>>
  /\ contract = NoContract
  /\ mwIdx = 0
  /\ chatResponse = NoMessage
  /\ callIdx = 0
  /\ dispatch = "idle"
  /\ thrown = "none"
  /\ response = NoResponse
  /\ lastHook = NoHook
  /\ trace = <<>>
  /\ DetectionAtRest
  /\ ConcurrentAtRest
  /\ initialized = {}
  /\ RetentionAtRest

\* what a lifecycle action leaves alone
lifecycleRest ==
  <<pc, provider, faults, contracts, storage, store, messages,
    detectedIntent, injectedContext, functionCalls, contract, mwIdx,
    chatResponse, callIdx, dispatch, thrown, response, trace, detVars,
    concVars, retVars>>

\* registerPlugin: an id already in the Map throws and changes nothing; the
\* call and the plugin id it was made with are recorded
registerPluginOverwriting(plugin) ==
  /\ plugin.id \in PluginIdsOf(plugins) \/ Len(plugins) < MaxPlugins
  /\ plugins' = MapSet(plugins, plugin)
  /\ lastHook' = [name |-> "registerPlugin", error |-> "none",
                  calls |-> << <<plugin.id, "registerPlugin">> >>]
  /\ UNCHANGED <<initialized, lifecycleRest>>
registerPlugin(plugin) ==
  /\ plugin.id \in PluginIdsOf(plugins) \/ Len(plugins) < MaxPlugins
  /\ IF plugin.id \in PluginIdsOf(plugins)
     THEN /\ plugins' = plugins
          /\ lastHook' = [name |-> "registerPlugin",
                          error |-> "AlreadyRegistered",
                          calls |-> << <<plugin.id, "registerPlugin">> >>]
     ELSE /\ plugins' = Append(plugins, plugin)
          /\ lastHook' = [name |-> "registerPlugin", error |-> "none",
                          calls |-> << <<plugin.id, "registerPlugin">> >>]
  /\ UNCHANGED <<initialized, lifecycleRest>>

\* unregisterPlugin: Map.delete, true when the id was there
unregisterPlugin(pluginId) ==
  /\ plugins' = SelectSeq(plugins, LAMBDA p : p.id # pluginId)
  /\ lastHook' = [name |-> "unregisterPlugin", error |-> "none",
                  calls |-> << <<pluginId,
                                 IF pluginId \in PluginIdsOf(plugins)
                                 THEN "true" ELSE "false">> >>]
  /\ UNCHANGED <<initialized, lifecycleRest>>

\* PluginManager.initialize
initialize ==
  /\ LET r == initializePlugins(plugins, faults.throwers)
     IN  /\ lastHook' = HookRecord("initialize", r)
         /\ initialized' =
              initialized \cup {r.calls[i][1] : i \in DOMAIN r.calls}
  /\ UNCHANGED <<plugins, lifecycleRest>>

\* IntentFramework.shutdown: PluginManager.shutdown
shutdown ==
  /\ lastHook' = HookRecord("shutdown",
                            shutdownPlugins(plugins, faults.throwers))
  /\ UNCHANGED <<plugins, initialized, lifecycleRest>>

\* a process call fires a hook
FireHook(hookName) ==
  /\ lastHook' = HookRecord(hookName, Fire(hookName))
  /\ UNCHANGED <<plugins, initialized, lifecycleRest>>

LifecycleNext ==
  \/ \E plugin \in PluginPool : registerPlugin(plugin)
  \/ \E pluginId \in PoolIds : unregisterPlugin(pluginId)
  \/ initialize
  \/ shutdown
  \/ \E hookName \in LifecycleHooks : FireHook(hookName)

LifecycleSpec == LifecycleInit /\ [][LifecycleNext]_vars

\* ------------------------------------------------------------------------
\* The contract registry: registerContract, registerContracts, getContracts
\* ------------------------------------------------------------------------
\* largest number of contracts registered on one framework
MaxRegistrations == 4

\* a contract object: ref is its identity, two objects with one intent id and
\* different refs are different objects (one may be a clone of the other)
ContractObject(id, ref) ==
  [id |-> id, middleware |-> 0, contextProvider |-> FALSE,
   functions |-> Functions, ref |-> ref]

\* the contract objects handed to registerContract
ContractPool ==
  {ContractObject(id, ref) : id \in {"weather", "greet"}, ref \in 1..2}

\* Array.from(this.contracts.values()): the values, in the Map's order
getContracts(cs) == [i \in DOMAIN cs |-> cs[i]]

\* contracts.forEach(registerContract): the registry and the log after the
\* contracts of list were registered one after the other
RECURSIVE RegisterEach(_, _, _)
RegisterEach(cs, log, list) ==
  IF list = <<>> THEN [contracts |-> cs, trace |-> log]
  ELSE RegisterEach(MapSet(cs, Head(list)),
                    Append(log, ContextEvent("registerContract",
                                             Head(list).id, 0, "return",
                                             Head(list))),
                    Tail(list))

\* a framework right after construction
RegistryInit ==
  /\ pc = "idle"
  /\ TurnAtRest
  /\ DetectionAtRest
  /\ ConcurrentAtRest
  /\ initialized = {}
  /\ RetentionAtRest

registryRest ==
  <<aux, pc, provider, plugins, faults, storage, store, messages,
    detectedIntent, injectedContext, functionCalls, contract, mwIdx,
    chatResponse, callIdx, dispatch, thrown, response, lastHook>>

registerContract(c) ==
  /\ Len(trace) < MaxRegistrations
  /\ LET r == RegisterEach(contracts, trace, <<c>>)
     IN  contracts' = r.contracts /\ trace' = r.trace
  /\ UNCHANGED registryRest

registerContracts(list) ==
  /\ Len(trace) + Len(list) <= MaxRegistrations
  /\ LET r == RegisterEach(contracts, trace, list)
     IN  contracts' = r.contracts /\ trace' = r.trace
  /\ UNCHANGED registryRest

RegistryNext ==
  \/ \E c \in ContractPool : registerContract(c)
  \/ \E c \in ContractPool : \E d \in ContractPool :
       registerContracts(<<c, d>>)

RegistrySpec == RegistryInit /\ [][RegistryNext]_vars

\* ------------------------------------------------------------------------
\* Context retention: storeContext and clearConversationHistory on the
\* retained contexts of two conversations
\* ------------------------------------------------------------------------
MaxStores == 4

\* contextRetention as configured: maxContexts left out, 0, 1 or 2
RetentionConfigs ==
  [enabled : BOOLEAN,
   maxContexts : {NotConfigured} \cup {Configured(n) : n \in 0..2}]

\* config.contextRetention.maxContexts || 10
MaxContextsOf(config) ==
  IF ~config.maxContexts.set \/ config.maxContexts.value = 0 THEN 10
  ELSE config.maxContexts.value

\* contexts.splice(0, contexts.length - maxContexts) when the list is longer
\* than maxContexts
Trim(contexts, maxContexts) ==
  IF Len(contexts) > maxContexts
  THEN SubSeq(contexts, Len(contexts) - maxContexts + 1, Len(contexts))
  ELSE contexts

RetentionInit ==
  /\ pc = "idle"
  /\ TurnAtRest
  /\ DetectionAtRest
  /\ ConcurrentAtRest
  /\ initialized = {}
  /\ retention \in RetentionConfigs
  /\ contextStore = [id \in ConversationIds |-> <<>>]
  /\ retLog = <<>>

retentionRest ==
  <<pc, turnRest, detVars, concVars, initialized, retention>>

\* storeContext: nothing when retention is not enabled; otherwise the
\* context is pushed, the list trimmed from the front and set
storeContext(conversationId, context) ==
  /\ Len(retLog) < MaxStores
  /\ contextStore' =
       IF ~retention.enabled THEN contextStore
       ELSE [contextStore EXCEPT ![conversationId] =
               Trim(Append(@, context), MaxContextsOf(retention))]
  /\ retLog' = Append(retLog, <<"storeContext", conversationId, context>>)
  /\ UNCHANGED retentionRest

\* clearConversationHistory: the entry of the conversation is deleted
clearConversationHistory(conversationId) ==
  /\ Len(retLog) < MaxStores
  /\ contextStore' = [contextStore EXCEPT ![conversationId] = <<>>]
  /\ retLog' = Append(retLog, <<"clearConversationHistory", conversationId,
                                0>>)
  /\ UNCHANGED retentionRest

\* each stored context is a new object: the n-th call stores context n
RetentionNext ==
  \E conversationId \in ConversationIds :
    \/ storeContext(conversationId, Len(retLog) + 1)
    \/ clearConversationHistory(conversationId)

RetentionSpec == RetentionInit /\ [][RetentionNext]_vars

\* ------------------------------------------------------------------------
\* Observations on a turn
\* ------------------------------------------------------------------------
\* the handler calls of the most recent executeHook, as positions
HookCallIndex(id, hookName) == IndexOf(lastHook.calls, <<id, hookName>>)
HookCallCount(id, hookName) ==
  Cardinality({i \in DOMAIN lastHook.calls : lastHook.calls[i] = <<id, hookName>>})

\* the middleware calls of the turn
MiddlewareEvents == SelectSeq(trace, LAMBDA e : e[1] = "middleware")
MiddlewareHalted ==
  \E j \in DOMAIN trace : trace[j][1] = "middleware" /\ trace[j][4] = "halt"
MiddlewareThrew ==
  \E j \in DOMAIN trace : trace[j][1] = "middleware" /\ trace[j][4] = "throw"
\* the loop is over: the turn went past it or ended in it
MiddlewareLoopOver ==
  contract # NoContract /\ pc \notin {"middleware", "middlewareWait"}

\* the events of the dispatcher, each tagged with the id of its tool call
IsDispatchEvent(e) ==
  \/ e[1] \in {"handler", "JSON.parse"}
  \/ e[1] = "executeHook"
     /\ e[2] \in {"onBeforeFunctionExecution", "onAfterFunctionExecution"}
  \/ e[1] = "log" /\ e[4] \in {"Function not found", "Function failed"}
DispatchEvents == SelectSeq(trace, IsDispatchEvent)

KnownNames == {Functions[i].name : i \in DOMAIN Functions}
DispatchOver == dispatch \in {"returned", "threw"}
\* the loop of the dispatcher has handled (or died in) tool call i
CallHandled(i) == callIdx > i \/ (dispatch = "threw" /\ callIdx = i)
HandlerOutcomeOf(id, kind) ==
  \E j \in DOMAIN trace : trace[j] = Event("handler", "end", id, kind)
CountEvents(P(_)) == Cardinality({j \in DOMAIN trace : P(trace[j])})

\* ------------------------------------------------------------------------
\* Claims
\* ------------------------------------------------------------------------
\* C1: a call to process never rejects; it always resolves with the response
\* envelope, whatever the collaborators and the registered plugins do.
ProcessAlwaysResolves ==
  /\ pc # "rejected"
  /\ pc = "done" => response.terminal # "none"

\* C2: in every executeHook call, when registered plugin A lists registered
\* plugin B in its dependencies, B's handler is invoked before A's handler.
DependencyRunsFirst ==
  \A a \in DOMAIN plugins : \A b \in DOMAIN plugins :
    ( /\ plugins[b].id \in Range(plugins[a].dependencies)
      /\ HookCallIndex(plugins[a].id, lastHook.name) > 0
      /\ HookCallIndex(plugins[b].id, lastHook.name) > 0 )
    => HookCallIndex(plugins[b].id, lastHook.name)
         < HookCallIndex(plugins[a].id, lastHook.name)

\* C3: a plugin handler that throws does not make executeHook throw, every
\* registered plugin implementing the hook has its handler invoked exactly
\* once in that firing, and no turn ends in the catch block because of a
\* plugin handler.
HookFailureIsolated ==
  /\ lastHook.error # "PluginHandlerError"
  /\ thrown # "PluginHandlerError"
  /\ (lastHook.name # "" /\ lastHook.error = "none") =>
       \A i \in DOMAIN plugins :
         HookCallCount(plugins[i].id, lastHook.name)
           = IF lastHook.name \in plugins[i].hooks THEN 1 ELSE 0
  /\ (pc = "done" /\ response.terminal = "ERROR_RESPONSE") =>
       thrown \in {"CircularDependency", "DetectionError", "NoContractFound",
                   "MiddlewareError", "CompletionError", "SyntaxError"}

\* C3 witness: a firing in which a handler threw and a plugin sorted after
\* it was still invoked, in a turn that ended with a function response.
HookFailureIsolatedWitness ==
  /\ pc = "done"
  /\ response.terminal = "FUNCTION_RESPONSE"
  /\ \E i \in DOMAIN lastHook.calls : \E j \in DOMAIN lastHook.calls :
       /\ i < j
       /\ lastHook.calls[i][1] \in faults.throwers
       /\ lastHook.calls[i][2] = lastHook.name
       /\ lastHook.calls[j][1] # lastHook.calls[i][1]

\* C4 as stated: the middleware up to the first that returns continue:false
\* are invoked once each in array order and no later one; if none returns
\* continue:false, all N are invoked.
MiddlewareAllInvokedUnlessHalted ==
  (MiddlewareLoopOver /\ ~MiddlewareHalted) =>
    Len(MiddlewareEvents) = 2 * contract.middleware

\* C4 amended: the middleware calls of a turn are start 1, end 1, start 2,
\* end 2, ... (array order, once each, one after the other); a call that
\* returns continue:false or throws is the last one; and when the loop is
\* over and no middleware halted or threw, all N were invoked.
MiddlewareChainOrder ==
  LET ev == MiddlewareEvents
  IN  /\ \A j \in DOMAIN ev :
           /\ ev[j][2] = IF j % 2 = 1 THEN "start" ELSE "end"
           /\ ev[j][3] = (j + 1) \div 2
           /\ ev[j][3] <= contract.middleware
           /\ ev[j][4] \in {"halt", "throw"} => j = Len(ev)
      /\ (MiddlewareLoopOver /\ ~MiddlewareHalted /\ ~MiddlewareThrew) =>
           Len(ev) = 2 * contract.middleware

\* C4 witness: the first of at least two middleware continued, the second
\* returned continue:false and the turn is over.
MiddlewareChainOrderWitness ==
  /\ pc = "done"
  /\ contract.middleware >= 2
  /\ Len(MiddlewareEvents) = 4
  /\ MiddlewareEvents[2][4] = "continue"
  /\ MiddlewareEvents[4][4] = "halt"

\* C5: once a middleware has returned continue:false the turn is over with
\* the fixed stopped text, intentDetected true and functionsExecuted 0, and
\* the turn called neither the completion provider, nor the context
\* provider, nor a handler, nor the storage write.
MiddlewareHaltStopsTurn ==
  MiddlewareHalted =>
    /\ pc \in {"done", "cleared"}
    /\ response.terminal = "MIDDLEWARE_STOPPED"
    /\ response.text = MiddlewareStoppedText
    /\ response.intentDetected
    /\ response.functionsExecuted = 0
    /\ \A j \in DOMAIN trace :
         /\ trace[j][1] \notin {"completion", "contextProvider", "handler"}
         /\ trace[j][2] # "updateConversationHistory"

\* C5 witness: a halted turn of a contract that has a context provider, with
\* a storage instance configured.
MiddlewareHaltStopsTurnWitness ==
  /\ MiddlewareHalted
  /\ pc = "done"
  /\ contract.contextProvider
  /\ storage = "instance"

\* C6: when the dispatcher is over for a batch of known functions, every
\* tool call has exactly one record, in order; the record of a call whose
\* handler threw has error and no result, the record of a call whose handler
\* returned has its result and no error.
HandlerFailureIsolated ==
  (DispatchOver /\ \A i \in DOMAIN toolCalls : toolCalls[i].name \in KnownNames)
  => /\ Len(functionCalls) = Len(toolCalls)
     /\ \A i \in DOMAIN functionCalls :
          /\ functionCalls[i].functionId = toolCalls[i].id
          /\ HandlerOutcomeOf(toolCalls[i].id, "throw") =>
               /\ functionCalls[i].error # Undefined
               /\ functionCalls[i].result = Undefined
          /\ HandlerOutcomeOf(toolCalls[i].id, "return") =>
               functionCalls[i].error = Undefined

\* C7: every Function Call record has exactly one of result / error set.
ExactlyOneOfResultError ==
  \A i \in DOMAIN functionCalls :
    (functionCalls[i].result # Undefined) # (functionCalls[i].error # Undefined)

\* C8: an argument string that is not JSON does not make the dispatcher
\* throw, the remaining tool calls are still dispatched, and the turn does
\* not end in the error response because of it.
ParseFailureIsPerCall ==
  /\ thrown # "SyntaxError"
  /\ \A i \in DOMAIN toolCalls :
       (~JSONParse(toolCalls[i].arguments).ok /\ CallHandled(i)) =>
         /\ dispatch # "threw"
         /\ pc \in {"done", "rejected"} => callIdx > Len(toolCalls)

\* C9: a tool call naming an unknown function gets no record, no handler
\* call and no function hook, one error log entry, does not make the
\* dispatcher throw and does not stop the loop.
UnknownFunctionSkipped ==
  \A i \in DOMAIN toolCalls :
    (toolCalls[i].name \notin KnownNames) =>
      /\ \A k \in DOMAIN functionCalls :
           functionCalls[k].functionId # toolCalls[i].id
      /\ \A j \in DOMAIN trace :
           (trace[j][1] \in {"handler", "executeHook"})
             => trace[j][3] # toolCalls[i].id
      /\ CallHandled(i) =>
           /\ CountEvents(LAMBDA e : e = Event("log", "error", toolCalls[i].id,
                                               "Function not found")) = 1
           /\ ~(dispatch = "threw" /\ callIdx = i)
           /\ callIdx > i

\* C10: the tool calls are dispatched one after the other in the order the
\* provider returned them: the dispatcher's events never go back to an
\* earlier call, a handler that started has ended and had its after hook
\* fired before any event of a later call, and the records are in the
\* provider's order.
DispatchInProviderOrder ==
  LET ev == DispatchEvents
  IN  /\ \A j \in DOMAIN ev : \A k \in DOMAIN ev :
           j < k => ev[j][3] <= ev[k][3]
      /\ \A j \in DOMAIN ev : \A k \in DOMAIN ev :
           (j < k /\ ev[j][1] = "handler" /\ ev[j][2] = "start"
              /\ ev[k][3] > ev[j][3])
           => \E m \in (j + 1)..(k - 1) : \E n \in (m + 1)..(k - 1) :
                /\ ev[m][1] = "handler" /\ ev[m][2] = "end"
                /\ ev[m][3] = ev[j][3]
                /\ ev[n][1] = "executeHook"
                /\ ev[n][2] = "onAfterFunctionExecution"
                /\ ev[n][3] = ev[j][3]
      /\ \A a \in DOMAIN functionCalls : \A b \in DOMAIN functionCalls :
           a < b => functionCalls[a].functionId < functionCalls[b].functionId
      /\ \A a \in DOMAIN functionCalls :
           \E i \in DOMAIN toolCalls :
             toolCalls[i].id = functionCalls[a].functionId

\* C10 witness: the dispatcher returned after recording two calls.
DispatchInProviderOrderWitness ==
  /\ dispatch = "returned"
  /\ Len(functionCalls) >= 2
  /\ functionCalls[1].functionId = 1
  /\ functionCalls[2].functionId = 2

\* the hybrid threshold as documented: the configured confidenceThreshold,
\* else 0.7
DocumentedHybridThreshold ==
  IF detConfig.threshold.set THEN Frac(detConfig.threshold.pct, 100)
  ELSE Frac(70, 100)

\* C11: under the hybrid strategy, whenever the pattern matcher's result has
\* confidence at or above the hybrid threshold (the configured
\* confidenceThreshold, else 0.7), detectIntent returns that pattern result
\* and the completion provider is not called for intent detection.
HybridShortCircuits ==
  ( /\ detConfig.strategy = "hybrid"
    /\ detPc \in {"llm", "done"}
    /\ PatternResult # NoMatch
    /\ GE(PatternResult.confidence, DocumentedHybridThreshold) )
  => /\ detPc = "done"
     /\ llmCalls = 0
     /\ detResult = PatternResult

\* the onError firings of the turn's catch block
IsErrorHookEvent(e) == e[1] = "executeHook" /\ e[2] = "onError"

\* C12: whenever something inside the turn processing throws, the turn goes
\* through the catch block: the onError hook is fired exactly once, and the
\* turn then resolves with the error response carrying the fixed apology.
ErrorHookFiresOnce ==
  thrown # "none" =>
    /\ pc \in {"catch", "done"}
    /\ pc = "catch" => CountEvents(IsErrorHookEvent) = 0
    /\ pc = "done" =>
         /\ CountEvents(IsErrorHookEvent) = 1
         /\ lastHook.name = "onError"
         /\ response.terminal = "ERROR_RESPONSE"
         /\ response.text = ErrorText

\* C13: every terminal state returns the envelope of one of the five kinds,
\* and in every terminal state reached after an intent was detected the
\* metadata carries the confidence of the detection result.
TerminalCarriesConfidence ==
  pc = "done" =>
    /\ response.terminal \in {"FALLBACK", "MIDDLEWARE_STOPPED",
                              "PLAIN_RESPONSE", "FUNCTION_RESPONSE",
                              "ERROR_RESPONSE"}
    /\ detectedIntent.kind = "intent" =>
         /\ response.confidence # {}
         /\ response.confidence = detectedIntent.confidence

\* storage-provider calls of the turn, by method and outcome
StorageCalled(method, outcome) ==
  \E j \in DOMAIN trace : trace[j] = Event("storage", method, 0, outcome)

\* C14: storage is best effort.  Without a storage instance no storage method
\* is called and the turn starts from an empty history; a read that throws
\* is logged and the turn starts from an empty history, a read that returns
\* gives the stored history; a write that throws is logged, raises nothing
\* and the turn resolves with the response of the successful path; a clear
\* that throws is logged and the clearConversationHistory call completes.
StorageIsBestEffort ==
  /\ pc # "start" => Len(messages) >= 1
  /\ storage = "none" =>
       /\ \A j \in DOMAIN trace : trace[j][1] # "storage"
       /\ store = <<>>
       /\ pc # "start" => messages[1] = UserMessage
  /\ StorageCalled("getConversationHistory", "throw") =>
       /\ trace[2] = Event("log", "error", 0,
                           "Failed to get conversation history")
       /\ messages[1] = UserMessage
  /\ (StorageCalled("getConversationHistory", "return")
        /\ pc = "hookBeforeDetection"
        /\ ~StorageCalled("shutdown", "return")) =>
       messages = Append(store, UserMessage)
  /\ StorageCalled("updateConversationHistory", "throw") =>
       /\ thrown = "none"
       /\ pc \in {"hookAfterResponse", "done", "cleared"}
       /\ pc \in {"done", "cleared"} =>
            /\ response = SuccessResponse
            /\ response.terminal \in {"PLAIN_RESPONSE", "FUNCTION_RESPONSE"}
       /\ \E j \in DOMAIN trace :
            trace[j] = Event("log", "error", 0,
                             "Failed to update conversation history")
  /\ StorageCalled("clearConversationHistory", "throw") =>
       /\ pc = "cleared"
       /\ trace[Len(trace)] = Event("log", "error", 0,
                                    "Failed to clear conversation history")

\* C14 witness: a stored history could not be read, the write of the turn
\* failed, the clear after the turn failed, and the turn had resolved with a
\* function response.
StorageIsBestEffortWitness ==
  /\ pc = "cleared"
  /\ store = PriorHistory
  /\ StorageCalled("getConversationHistory", "throw")
  /\ StorageCalled("updateConversationHistory", "throw")
  /\ StorageCalled("clearConversationHistory", "throw")
  /\ response.terminal = "FUNCTION_RESPONSE"

\* observations on two concurrent calls
StoredHistory == IF entry = 0 THEN <<>> ELSE heap[entry]
Transcript(c) ==
  (IF cprovider.stored THEN StoredBefore ELSE <<>>)
    \o <<UserOf[c], AssistantOf[c]>>
BothWrote ==
  /\ \A c \in Calls : cpc[c] = "done"
  /\ \A c \in Calls : IndexOf(clog, <<"write", c>>) > 0
\* both calls loaded the history before either persisted
RacedLoads ==
  \A c \in Calls : \A d \in Calls :
    /\ IndexOf(clog, <<"read", c>>) > 0
    /\ IndexOf(clog, <<"write", d>>) > 0
         => IndexOf(clog, <<"read", c>>) < IndexOf(clog, <<"write", d>>)
LastWriter == clog[Len(clog)][2]

LastCallIsHook == lastHook.name \in HookNames
LastCallSorts == lastHook.name \in HookNames \cup {"initialize", "shutdown"}
\* the plugin ids on which method was invoked by the call, in order
InvokedIn(calls, method) ==
  LET sel == SelectSeq(calls, LAMBDA c : c[2] = method)
  IN  [i \in DOMAIN sel |-> sel[i][1]]
\* a depends on b through at most n declared dependencies
RECURSIVE DependsOn(_, _, _, _)
DependsOn(reg, a, b, n) ==
  /\ n > 0
  /\ \/ b \in Range(DependenciesOf(reg, a))
     \/ \E c \in Range(DependenciesOf(reg, a)) : DependsOn(reg, c, b, n - 1)
HasCycle(reg) ==
  \E a \in PluginIdsOf(reg) : DependsOn(reg, a, a, Len(reg))

\* C16: a plugin's initialize has been invoked before any lifecycle hook is
\* fired on it and before its shutdown is invoked.
InitializedBeforeUse ==
  (LastCallIsHook \/ lastHook.name = "shutdown") =>
    \A i \in DOMAIN lastHook.calls : lastHook.calls[i][1] \in initialized

\* C17: shutdown invokes shutdown on the registered plugins in exactly the
\* reverse of the order in which initialize invokes initialize on the same
\* registry; every registered plugin is initialized / shut down once whether
\* or not another one throws, and no plugin failure leaves the manager's
\* call.
ShutdownReversesInitialize ==
  LET initIds == InvokedIn(initializePlugins(plugins, faults.throwers).calls,
                           "initialize")
      downIds == InvokedIn(lastHook.calls, "shutdown")
      n == Len(initIds)
  IN  lastHook.name \in {"initialize", "shutdown"} =>
        /\ lastHook.error \in {"none", "CircularDependency"}
        /\ lastHook.error = "none" =>
             \A p \in PluginIdsOf(plugins) :
               Cardinality({i \in DOMAIN lastHook.calls :
                              lastHook.calls[i] = <<p, lastHook.name>>}) = 1
        /\ (lastHook.name = "shutdown" /\ lastHook.error = "none") =>
             /\ Len(downIds) = n
             /\ \A i \in 1..n : downIds[i] = initIds[n + 1 - i]

\* C17 witness: a shutdown of two plugins in which the first one shut down
\* threw and the other was shut down after it.
ShutdownReversesInitializeWitness ==
  /\ lastHook.name = "shutdown"
  /\ Len(lastHook.calls) = 3
  /\ lastHook.calls[2][2] = "console.error"
  /\ lastHook.calls[3][2] = "shutdown"
  /\ lastHook.calls[3][1] # lastHook.calls[1][1]

\* C18: executeHook, initialize and shutdown raise the circular-dependency
\* error exactly when the declared dependencies of the registered plugins
\* contain a cycle, and then invoke no plugin.
CycleIsFatal ==
  LastCallSorts =>
    /\ (lastHook.error = "CircularDependency") = HasCycle(plugins)
    /\ HasCycle(plugins) => lastHook.calls = <<>>

\* C18 witness: initialize refused on a registry of two plugins that depend
\* on each other.
CycleIsFatalWitness ==
  /\ lastHook.name = "initialize"
  /\ lastHook.error = "CircularDependency"
  /\ Len(plugins) = 2
  /\ \A i \in DOMAIN plugins : plugins[i].dependencies # <<plugins[i].id>>

\* C19: in a firing of a hook other than onError, a plugin's onError is
\* invoked exactly once, right after its handler, when its handler threw and
\* it has one, and not at all otherwise; a throw of that onError leaves
\* executeHook running; in a firing of onError every implementing plugin's
\* onError is invoked once, also when it throws.
OwnErrorHandlerOnly ==
  (LastCallIsHook /\ lastHook.error # "CircularDependency") =>
    /\ lastHook.error = "none"
    /\ \A i \in DOMAIN plugins :
         LET p == plugins[i]
             failed == /\ lastHook.name # "onError"
                       /\ lastHook.name \in p.hooks
                       /\ p.id \in faults.throwers
         IN  /\ HookCallCount(p.id, "onError")
                  = IF "onError" \in p.hooks
                       /\ (failed \/ lastHook.name = "onError")
                    THEN 1 ELSE 0
             /\ (failed /\ "onError" \in p.hooks) =>
                  HookCallIndex(p.id, "onError")
                    = HookCallIndex(p.id, lastHook.name) + 1

\* C19 witness: B's handler returned, A's handler threw and A's own onError,
\* which throws too, was invoked; B's onError was not.
OwnErrorHandlerOnlyWitness ==
  /\ lastHook.name = "onBeforeIntentDetection"
  /\ "A" \in faults.errThrowers
  /\ lastHook.calls = << <<"B", "onBeforeIntentDetection">>,
                         <<"A", "onBeforeIntentDetection">>,
                         <<"A", "onError">> >>

\* C20: in every firing, of two plugins with no dependency relationship
\* between them the one with the higher priority has its handler invoked
\* first, and two with equal priority are invoked in their relative order
\* in the dependency sort.
PriorityOrder ==
  (LastCallIsHook /\ lastHook.error = "none") =>
    \A i \in DOMAIN plugins : \A j \in DOMAIN plugins :
      LET a == plugins[i]
          b == plugins[j]
          topo == TopologicalSort(plugins).sorted
          both == i # j /\ lastHook.name \in a.hooks /\ lastHook.name \in b.hooks
          aFirst == HookCallIndex(a.id, lastHook.name)
                      < HookCallIndex(b.id, lastHook.name)
      IN  /\ ( /\ both
                /\ ~DependsOn(plugins, a.id, b.id, Len(plugins))
                /\ ~DependsOn(plugins, b.id, a.id, Len(plugins))
                /\ a.priority > b.priority ) => aFirst
          /\ ( /\ both
                /\ a.priority = b.priority
                /\ IndexOf(topo, a.id) < IndexOf(topo, b.id) ) => aFirst

\* C20 witness: C, registered after B and of higher priority, had its handler
\* invoked before B's.
PriorityOrderWitness ==
  /\ lastHook.name = "onBeforeIntentDetection"
  /\ Len(plugins) = 2
  /\ plugins[1].id = "B"
  /\ plugins[2].id = "C"
  /\ lastHook.calls[1][1] = "C"
  /\ lastHook.calls[Len(lastHook.calls)][1] = "B"

\* the modifiedContext most recently returned by a middleware among the
\* first n middleware events, absent if none returned one
RECURSIVE LastSupplied(_, _)
LastSupplied(ev, n) ==
  IF n = 0 THEN NoContext
  ELSE IF ev[n][2] = "end" /\ ev[n][5] # NoContext THEN ev[n][5]
  ELSE LastSupplied(ev, n - 1)

\* C21: the context handed to each middleware is the modifiedContext most
\* recently returned by an earlier middleware of the chain, absent if none
\* returned one; a middleware that returns no modifiedContext leaves the
\* injected context as it was, so that after the chain the injected context
\* is the last one a middleware supplied.
MiddlewareContextThreading ==
  LET ev == MiddlewareEvents
  IN  /\ \A j \in DOMAIN ev :
           ev[j][2] = "start" => ev[j][5] = LastSupplied(ev, j - 1)
      /\ \A j \in DOMAIN ev :
           (ev[j][2] = "end" /\ ev[j][5] = NoContext /\ j < Len(ev)) =>
             ev[j + 1][5] = ev[j - 1][5]
      /\ pc \in {"middleware", "hookBeforeContext"} =>
           injectedContext = LastSupplied(ev, Len(ev))

\* C21 witness: the first of two middleware supplied a context, the second
\* was handed it and returned none, and the chain is over with the context of
\* the first still injected.
MiddlewareContextThreadingWitness ==
  /\ pc = "hookBeforeContext"
  /\ Len(MiddlewareEvents) = 4
  /\ MiddlewareEvents[2][5] = MiddlewareContext(1)
  /\ MiddlewareEvents[3][5] = MiddlewareContext(1)
  /\ MiddlewareEvents[4][5] = NoContext
  /\ injectedContext = MiddlewareContext(1)

\* the function a handler event of the dispatcher was a call of
FunctionOfCall(id) ==
  contract.functions[FindFunction(contract.functions, toolCalls[id].name)]
IsHandlerStart(e) == e[1] = "handler" /\ e[2] = "start"
IsAfterContextHook(e) ==
  e[1] = "executeHook" /\ e[2] = "onAfterContextInjection"
\* the context the middleware chain of the turn supplied last
LastMiddlewareContext == LastSupplied(MiddlewareEvents, Len(MiddlewareEvents))

\* C22: in a turn whose chain did not halt and in which some middleware
\* supplied a context, the last middleware-supplied context is the injected
\* context the onAfterContextInjection hook is handed and the context passed
\* to every dispatched handler of a function with requiresContext true.
MiddlewareContextReachesHandlers ==
  (~MiddlewareHalted /\ LastMiddlewareContext # NoContext) =>
    \A j \in DOMAIN trace :
      /\ IsAfterContextHook(trace[j]) => trace[j][5] = LastMiddlewareContext
      /\ (IsHandlerStart(trace[j])
            /\ FunctionOfCall(trace[j][3]).requiresContext) =>
           trace[j][5] = LastMiddlewareContext

\* C22 witness: a contract with a context provider whose middleware supplied
\* a context; the turn fired onAfterContextInjection, called the handler of
\* g, which requires context, with the middleware's context and ended in a
\* function response.
MiddlewareContextReachesHandlersWitness ==
  /\ pc = "done"
  /\ response.terminal = "FUNCTION_RESPONSE"
  /\ contract.contextProvider
  /\ LastMiddlewareContext = MiddlewareContext(1)
  /\ \E j \in DOMAIN trace : IsAfterContextHook(trace[j])
  /\ \E j \in DOMAIN trace :
       /\ IsHandlerStart(trace[j])
       /\ toolCalls[trace[j][3]].name = "g"
       /\ trace[j][5] = MiddlewareContext(1)

\* C23: a handler is passed the turn's injected context exactly when its
\* function's requiresContext flag is true; the handler of a function
\* without the flag is passed no context, also when an injected context
\* exists.
ContextOnlyIfRequired ==
  \A j \in DOMAIN trace :
    IsHandlerStart(trace[j]) =>
      /\ FunctionOfCall(trace[j][3]).requiresContext =>
           trace[j][5] = injectedContext
      /\ ~FunctionOfCall(trace[j][3]).requiresContext =>
           trace[j][5] = NoContext

\* C23 witness: the context provider supplied a context and the handler of
\* f, which does not require context, was called without it.
ContextOnlyIfRequiredWitness ==
  /\ pc = "done"
  /\ injectedContext = ProviderContext
  /\ \E j \in DOMAIN trace :
       /\ IsHandlerStart(trace[j])
       /\ toolCalls[trace[j][3]].name = "f"
       /\ trace[j][5] = NoContext

\* position in the trace of the context provider's throw, 0 if it did not
ProviderThrowAt ==
  IndexOf(trace, ContextEvent("contextProvider", "", 0, "throw", NoContext))

\* C24: when the contract's context provider throws, the failure is logged,
\* the turn goes on with no injected context, the onAfterContextInjection
\* hook is still fired, and the turn gets to the call of the completion
\* provider: it does not end in the error response before that call.
ProviderFailureRecovered ==
  LET k == ProviderThrowAt
  IN  k > 0 =>
        /\ trace[k + 1] = Event("log", "error", 0, "Failed to provide context")
        /\ injectedContext = NoContext
        /\ pc # "contextProvider"
        /\ pc # "hookAfterContext" =>
             /\ Len(trace) >= k + 2
             /\ IsAfterContextHook(trace[k + 2])
             /\ trace[k + 2][4] = "none"
             /\ trace[k + 2][5] = NoContext
             /\ \/ pc = "completionMain"
                \/ /\ Len(trace) >= k + 3
                   /\ trace[k + 3][1] = "completion"
                   /\ trace[k + 3][2] = "main"

\* C24 witness: the context provider threw, the completion provider was
\* called and the turn resolved with a plain response.
ProviderFailureRecoveredWitness ==
  /\ ProviderThrowAt > 0
  /\ pc = "done"
  /\ response.terminal = "PLAIN_RESPONSE"
  /\ plugins # <<>>

\* the executeHook calls of the turn, in order
HookFirings == SelectSeq(trace, LAMBDA e : e[1] = "executeHook")
HookFired(i) == HookFirings[i][2]
FunctionHooks == {"onBeforeFunctionExecution", "onAfterFunctionExecution"}

\* the hook that may be fired right after hook a in one turn: the documented
\* order without gaps, the function pair repeated per dispatched call or
\* left out when no call is dispatched
MayFollow(a, b) ==
  \/ a = "onBeforeIntentDetection" /\ b = "onAfterIntentDetection"
  \/ a = "onAfterIntentDetection" /\ b = "onBeforeContextInjection"
  \/ a = "onBeforeContextInjection" /\ b = "onAfterContextInjection"
  \/ a = "onAfterContextInjection"
     /\ b \in {"onBeforeFunctionExecution", "onBeforeResponseGeneration"}
  \/ a = "onBeforeFunctionExecution" /\ b = "onAfterFunctionExecution"
  \/ a = "onAfterFunctionExecution"
     /\ b \in {"onBeforeFunctionExecution", "onBeforeResponseGeneration"}
  \/ a = "onBeforeResponseGeneration" /\ b = "onAfterResponseGeneration"

\* the tool calls of the batch that name a function of the contract
DispatchedCalls == {i \in DOMAIN toolCalls : toolCalls[i].name \in KnownNames}
TimesFired(hookName) ==
  Cardinality({i \in DOMAIN HookFirings : HookFired(i) = hookName})
LastFired == HookFired(Len(HookFirings))

\* C25: the hooks of one turn fire in the documented order: the first is
\* onBeforeIntentDetection, each next one is the documented successor of the
\* one before it (the function pair once per dispatched call, for that
\* call), onError is fired last only; so no hook other than the function
\* pair fires twice and none fires before an earlier one.  A resolved turn
\* has fired exactly the hooks up to its terminal state: the two detection
\* hooks for a fallback or stopped response, all the way to
\* onAfterResponseGeneration for a plain or function response with one
\* function pair per dispatched call, and onError last for an error response.
HooksInFixedOrder ==
  LET n == Len(HookFirings)
  IN  /\ n > 0 => HookFired(1) = "onBeforeIntentDetection"
      /\ \A i \in 1..(n - 1) :
           /\ HookFired(i) # "onError"
           /\ HookFired(i + 1) # "onError" =>
                MayFollow(HookFired(i), HookFired(i + 1))
           /\ HookFired(i) = "onBeforeFunctionExecution"
                /\ HookFired(i + 1) = "onAfterFunctionExecution" =>
                HookFirings[i][3] = HookFirings[i + 1][3]
      /\ \A h \in HookNames \ FunctionHooks : TimesFired(h) <= 1
      /\ pc = "done" =>
           /\ response.terminal \in {"FALLBACK", "MIDDLEWARE_STOPPED"} =>
                /\ n = 2
                /\ LastFired = "onAfterIntentDetection"
           /\ response.terminal \in {"PLAIN_RESPONSE", "FUNCTION_RESPONSE"} =>
                /\ LastFired = "onAfterResponseGeneration"
                /\ \A h \in FunctionHooks :
                     TimesFired(h) = Cardinality(DispatchedCalls)
           /\ response.terminal = "ERROR_RESPONSE" => LastFired = "onError"
           /\ response.terminal # "ERROR_RESPONSE" => TimesFired("onError") = 0

\* C25 witness: a function response after two dispatched calls: the four
\* hooks before the completion, two function pairs, the two response hooks.
HooksInFixedOrderWitness ==
  /\ pc = "done"
  /\ response.terminal = "FUNCTION_RESPONSE"
  /\ Len(HookFirings) = 10
  /\ HookFired(5) = "onBeforeFunctionExecution"
  /\ HookFired(8) = "onAfterFunctionExecution"
  /\ HookFired(10) = "onAfterResponseGeneration"

\* observations on a detectIntent call: the (intent, pattern) pairs of the
\* call in iteration order, those whose regex matches, and the score and
\* confidence of a pair
DetectionPairs == PatternPairs(detConfig.intents)
MatchingPairs == {i \in DOMAIN DetectionPairs : DetectionPairs[i].pattern.matches}
ScoreOf(i) == Frac(DetectionPairs[i].pattern.len, detConfig.messageLength)
ConfidenceOf(i) ==
  IF 2 * DetectionPairs[i].pattern.len >= detConfig.messageLength
  THEN Frac(1, 1)
  ELSE Frac(2 * DetectionPairs[i].pattern.len, detConfig.messageLength)
\* the matching pairs no other matching pair outscores
TopPairs == {i \in MatchingPairs : \A j \in MatchingPairs : GE(ScoreOf(i), ScoreOf(j))}
DocumentedPatternThreshold ==
  IF detConfig.threshold.set THEN Frac(detConfig.threshold.pct, 100)
  ELSE Frac(30, 100)
PatternCallDone == detConfig.strategy = "pattern" /\ detPc = "done"
ResultIsPair(i) ==
  /\ detResult.kind = "intent"
  /\ detResult.id = DetectionPairs[i].intent
  /\ detResult.matchedPattern = DetectionPairs[i].pattern.name

\* C26: detectIntentByPattern returns a matching (intent, pattern) pair of
\* highest score pattern.length / message.length, with confidence
\* min(2 * score, 1), if that confidence is at least the threshold (default
\* 0.3); it returns none exactly when no pattern matches or the best
\* confidence is below the threshold.
PatternReturnsBestMatch ==
  PatternCallDone =>
    /\ (detResult = NoMatch) =
         ( \/ MatchingPairs = {}
           \/ \E i \in TopPairs :
                ~GE(ConfidenceOf(i), DocumentedPatternThreshold) )
    /\ detResult # NoMatch =>
         \E i \in TopPairs :
           /\ ResultIsPair(i)
           /\ detResult.confidence.num * ConfidenceOf(i).den
                = ConfidenceOf(i).num * detResult.confidence.den

\* C27: when several matching patterns have the highest score, the pattern
\* matcher returns the one met first in iteration order: the intent
\* registered earlier, and within one intent the pattern listed earlier; a
\* pattern of equal score met later never replaces it.
FirstSeenWinsTies ==
  (PatternCallDone /\ detResult # NoMatch) =>
    \E i \in TopPairs :
      /\ ResultIsPair(i)
      /\ \A j \in TopPairs : i <= j

\* C27 witness: the two patterns of the first intent and the pattern of the
\* second intent all match with the same score; the first pattern of the
\* first intent is returned.
FirstSeenWinsTiesWitness ==
  /\ PatternCallDone
  /\ Len(DetectionPairs) = 3
  /\ TopPairs = {1, 2, 3}
  /\ DetectionPairs[3].intent # DetectionPairs[1].intent
  /\ ResultIsPair(1)

\* the threshold of the completion-based path as documented: the configured
\* confidenceThreshold, else 0.5
DocumentedLLMThreshold ==
  IF detConfig.threshold.set THEN Frac(detConfig.threshold.pct, 100)
  ELSE Frac(50, 100)
RegisteredIntentIds == {detConfig.intents[i].id : i \in DOMAIN detConfig.intents}

\* C28: detectIntentByLLM never throws.  It returns none when the provider
\* call fails, when the answer is not JSON, when intentId is missing, null
\* or not the id of a registered intent, or when the confidence is below the
\* configured threshold (default 0.5); otherwise it returns the registered
\* intent with that id and the reported confidence.
LLMDetectionIsDefensive ==
  (detPc = "done" /\ llmCalls > 0) =>
    LET o == llmOutcome
        accepted == /\ o.kind = "json"
                    /\ o.intentId \in RegisteredIntentIds
                    /\ GE(Frac(o.confidence, 100), DocumentedLLMThreshold)
    IN  detResult = IF accepted
                    THEN [kind |-> "intent", id |-> o.intentId,
                          confidence |-> Frac(o.confidence, 100),
                          matchedPattern |-> "LLM-based detection"]
                    ELSE NoMatch

\* detectIntent resolved with no intent in this turn
DetectionReturnedNone ==
  \E j \in DOMAIN trace : trace[j] = Event("detectIntent", "", 0, "none")

\* a destroy call that ran after detectIntent had resolved
DestroyedAfterDetection ==
  \E d \in DOMAIN trace : \E n \in DOMAIN trace :
    /\ trace[d][1] = "destroy"
    /\ trace[n][1] = "detectIntent"
    /\ n < d

\* C29: when detection returns no intent, and so whenever no contract is
\* registered when detection runs, the turn ends in the fallback response: the fixed fallback
\* text, intentDetected false, functionsExecuted 0; both intent-detection
\* hooks have fired, and no middleware, context provider, function handler
\* or main completion call was made.
NoIntentGivesFallback ==
  /\ (/\ contracts = <<>>
      /\ ~DestroyedAfterDetection
      /\ \E j \in DOMAIN trace : trace[j][1] = "detectIntent")
       => DetectionReturnedNone
  /\ DetectionReturnedNone =>
       /\ pc \in {"hookAfterDetection", "done", "cleared"}
       /\ thrown = "none"
       /\ \A j \in DOMAIN trace :
            trace[j][1] \notin {"middleware", "contextProvider", "handler",
                                "completion"}
       /\ pc \in {"done", "cleared"} =>
            /\ response.terminal = "FALLBACK"
            /\ response.text = FallbackText
            /\ response.intentDetected = FALSE
            /\ response.functionsExecuted = 0
            /\ Len(HookFirings) = 2
            /\ HookFired(1) = "onBeforeIntentDetection"
            /\ HookFired(2) = "onAfterIntentDetection"

\* C29 witness: a turn on a framework without contracts resolved.
NoIntentGivesFallbackWitness ==
  /\ contracts = <<>>
  /\ pc = "done"
  /\ response.terminal = "FALLBACK"
  /\ Len(HookFirings) = 2

\* detectIntent resolved with an intent in this turn
DetectionReturnedIntent ==
  \E j \in DOMAIN trace : trace[j] = Event("detectIntent", "", 0, "intent")
\* handler calls that settled, each followed by the push of its record
IsHandlerEnd(e) == e[1] = "handler" /\ e[2] = "end"

\* C30: the metadata of an error response reports the progress made before
\* the failure: intentDetected is true exactly when detection had produced
\* an intent, confidence is that intent's confidence (absent without one),
\* and functionsExecuted is the number of Function Call records appended
\* before the failure.
ErrorReportsProgress ==
  (pc \in {"done", "cleared"} /\ response.terminal = "ERROR_RESPONSE") =>
    /\ response.intentDetected = DetectionReturnedIntent
    /\ DetectionReturnedIntent =>
         /\ response.confidence = detectedIntent.confidence
         /\ response.confidence \subseteq Confidences
         /\ response.confidence # {}
    /\ ~DetectionReturnedIntent => response.confidence = {}
    /\ response.functionsExecuted = Len(functionCalls)
    /\ response.functionsExecuted = CountEvents(IsHandlerEnd)

\* C30 witness: the first tool call of a batch was executed and recorded, the
\* arguments of the second could not be parsed: the error response reports
\* the detected intent and one executed function.
ErrorReportsProgressWitness ==
  /\ pc = "done"
  /\ response.terminal = "ERROR_RESPONSE"
  /\ thrown = "SyntaxError"
  /\ response.intentDetected
  /\ response.functionsExecuted = 1

\* the contract objects registered on the framework, in call order
Registrations ==
  LET ev == SelectSeq(trace, LAMBDA e : e[1] = "registerContract")
  IN  [i \in DOMAIN ev |-> ev[i][5]]
RegisteredIds == {Registrations[i].id : i \in DOMAIN Registrations}
\* the first and the most recent registration under an intent id
FirstRegistration(id) ==
  CHOOSE k \in DOMAIN Registrations :
    /\ Registrations[k].id = id
    /\ \A m \in 1..(k - 1) : Registrations[m].id # id
LastRegistration(id) ==
  CHOOSE k \in DOMAIN Registrations :
    /\ Registrations[k].id = id
    /\ \A m \in (k + 1)..Len(Registrations) : Registrations[m].id # id
\* getContracts() has one entry per registered id, the very object most
\* recently registered under it
OneEntryPerIdMostRecent ==
  LET got == getContracts(contracts)
  IN  /\ {got[i].id : i \in DOMAIN got} = RegisteredIds
      /\ \A i \in DOMAIN got : \A j \in DOMAIN got :
           got[i].id = got[j].id => i = j
      /\ \A i \in DOMAIN got :
           got[i] = Registrations[LastRegistration(got[i].id)]

\* C31 as stated: getContracts() returns one entry per distinct intent id,
\* the very object most recently registered under that id, the entries in
\* the order in which those objects were registered.
RegistryRoundTrip ==
  LET got == getContracts(contracts)
  IN  /\ OneEntryPerIdMostRecent
      /\ \A i \in DOMAIN got : \A j \in DOMAIN got :
           i < j => LastRegistration(got[i].id) < LastRegistration(got[j].id)

\* C31 amended: getContracts() returns one entry per distinct intent id, the
\* very object most recently registered under that id, the entries in the
\* order in which their ids were first registered: registering an id that is
\* present replaces the contract in place.
RegistryRoundTripInPlace ==
  LET got == getContracts(contracts)
  IN  /\ OneEntryPerIdMostRecent
      /\ \A i \in DOMAIN got : \A j \in DOMAIN got :
           i < j => FirstRegistration(got[i].id) < FirstRegistration(got[j].id)

\* C31 witness: weather, greet, then another weather contract: the registry
\* lists the new weather object first and greet second.
RegistryRoundTripInPlaceWitness ==
  /\ Len(Registrations) = 3
  /\ Registrations[1] = ContractObject("weather", 1)
  /\ Registrations[2].id = "greet"
  /\ Registrations[3] = ContractObject("weather", 2)
  /\ getContracts(contracts) = <<Registrations[3], Registrations[2]>>

\* the most recent PluginManager call, the id it was made with and, for
\* unregisterPlugin, what it returned
LastManagerCall == lastHook.name
PluginIdsUnique ==
  \A i \in DOMAIN plugins : \A j \in DOMAIN plugins :
    plugins[i].id = plugins[j].id => i = j

\* C32: registerPlugin with an id that is already registered throws and
\* leaves the registry as it was, the plugin registered first staying in
\* place, and with a new id it adds the plugin and does not throw;
\* unregisterPlugin returns true exactly when the id was registered, and
\* removes that plugin only; the ids in the registry are always unique.
PluginRegistryGuarded ==
  /\ []PluginIdsUnique
  /\ [][ /\ lastHook'.name = "registerPlugin" =>
              LET id == lastHook'.calls[1][1]
              IN  IF id \in PluginIdsOf(plugins)
                  THEN /\ lastHook'.error = "AlreadyRegistered"
                       /\ plugins' = plugins
                  ELSE /\ lastHook'.error = "none"
                       /\ Len(plugins') = Len(plugins) + 1
                       /\ SubSeq(plugins', 1, Len(plugins)) = plugins
                       /\ plugins'[Len(plugins')].id = id
         /\ lastHook'.name = "unregisterPlugin" =>
              LET id == lastHook'.calls[1][1]
              IN  /\ (lastHook'.calls[1][2] = "true")
                       = (id \in PluginIdsOf(plugins))
                  /\ lastHook'.error = "none"
                  /\ plugins' = SelectSeq(plugins, LAMBDA p : p.id # id)
       ]_vars

\* C32 witness: with the plugin A of priority 1 registered, a registerPlugin
\* call with id A threw and that plugin is still the one registered.
PluginRegistryGuardedWitness ==
  /\ lastHook.name = "registerPlugin"
  /\ lastHook.error = "AlreadyRegistered"
  /\ lastHook.calls[1][1] = "A"
  /\ Len(plugins) = 2
  /\ plugins[2] = Plugin("A", 1, <<"B">>, HookNames)

\* the strategies detectIntent has a case for
ImplementedStrategies == {"pattern", "llm", "hybrid"}

\* C33: with a configured strategy other than pattern, llm or hybrid (the
\* declared embedding included) a finished detectIntent call returned what
\* the pattern strategy returns for the same message, intents and threshold,
\* made no completion-provider call, and never waited for the provider.
UnknownStrategyIsPattern ==
  detConfig.strategy \notin ImplementedStrategies =>
    /\ detPc # "llm"
    /\ llmCalls = 0
    /\ llmOutcome = NoOutcome
    /\ detPc = "done" => detResult = PatternResult

\* C33 witness: an embedding call returned a matching intent found by the
\* pattern matcher.
UnknownStrategyIsPatternWitness ==
  /\ detConfig.strategy = "embedding"
  /\ detPc = "done"
  /\ detResult # NoMatch
  /\ detResult = PatternResult

\* the positions in the trace of the events of the tool call with an id
HookPositions(hookName, id) ==
  {n \in DOMAIN trace : /\ trace[n][1] = "executeHook"
                        /\ trace[n][2] = hookName
                        /\ trace[n][3] = id}
HandlerStarts(id) ==
  {n \in DOMAIN trace : IsHandlerStart(trace[n]) /\ trace[n][3] = id}
HandlerEnds(id) ==
  {n \in DOMAIN trace : IsHandlerEnd(trace[n]) /\ trace[n][3] = id}
\* the records pushed for the tool call with an id
RecordsOf(id) ==
  {k \in DOMAIN functionCalls : functionCalls[k].functionId = id}

\* C34: for a tool call naming a function of the contract, the before hook is
\* fired at most once, with the function's id and the parsed parameters, and
\* the handler is called right after it, at most once; when the handler has
\* settled the after hook is fired once, with the function's id and the
\* result after a return, or with null and the error string after a throw,
\* and before the before hook of any later tool call; once the loop has
\* moved past the call, each of the three has happened exactly once.  A tool
\* call naming no function of the contract gets none of them.
FunctionHookPairs ==
  \A id \in DOMAIN toolCalls :
    LET befores == HookPositions("onBeforeFunctionExecution", id)
        afters == HookPositions("onAfterFunctionExecution", id)
        starts == HandlerStarts(id)
        ends == HandlerEnds(id)
    IN  IF id \notin DispatchedCalls
        THEN befores \cup afters \cup starts \cup ends = {}
        ELSE /\ \A S \in {befores, afters, starts, ends} : Cardinality(S) <= 1
             /\ \A n \in befores :
                  trace[n][6] = <<FunctionOfCall(id).id,
                                  JSONParse(toolCalls[id].arguments).value>>
             /\ \A n \in starts : n - 1 \in befores
             /\ \A n \in ends :
                  /\ n - 1 \in starts
                  /\ trace[n][4] = "return" =>
                       /\ n + 1 \in afters
                       /\ Len(trace[n + 1][6]) = 2
                       /\ trace[n + 1][6][1] = FunctionOfCall(id).id
                       /\ \A k \in RecordsOf(id) :
                            /\ functionCalls[k].result = trace[n + 1][6][2]
                            /\ functionCalls[k].error = Undefined
                  /\ trace[n][4] = "throw" =>
                       /\ n + 2 \in afters
                       /\ Len(trace[n + 2][6]) = 3
                       /\ trace[n + 2][6][1] = FunctionOfCall(id).id
                       /\ trace[n + 2][6][2] = Null
                       /\ trace[n + 2][6][3] # Undefined
                       /\ \A k \in RecordsOf(id) :
                            functionCalls[k].error = trace[n + 2][6][3]
             /\ \A n \in afters : n - 1 \in ends \/ n - 2 \in ends
             /\ \A later \in DOMAIN toolCalls :
                  later > id =>
                    \A n \in HookPositions("onBeforeFunctionExecution",
                                           later) :
                      \E m \in afters : m < n
             /\ callIdx > id =>
                  \A S \in {befores, afters, starts, ends} :
                    Cardinality(S) = 1

\* C34 witness: a function response after two dispatched calls, the first
\* handler threw and the second returned: the after hook of the first got
\* null and the error, the after hook of the second the result.
FunctionHookPairsWitness ==
  /\ pc = "done"
  /\ response.terminal = "FUNCTION_RESPONSE"
  /\ DispatchedCalls = {1, 2}
  /\ \E n \in HookPositions("onAfterFunctionExecution", 1) :
       trace[n][6] = <<FunctionOfCall(1).id, Null, "Test error">>
  /\ \E n \in HookPositions("onAfterFunctionExecution", 2) :
       trace[n][6] = <<FunctionOfCall(2).id, "result">>

\* the positions in the trace of the executeHook calls of a hook, of the
\* completion call whose text the turn returned (the second one when tool
\* calls were dispatched, the first one otherwise) and of the storage writes
FiringsOf(hookName) ==
  {n \in DOMAIN trace : trace[n][1] = "executeHook" /\ trace[n][2] = hookName}
GeneratingCalls ==
  {n \in DOMAIN trace :
     /\ trace[n][1] = "completion"
     /\ trace[n][2] = (IF response.terminal = "FUNCTION_RESPONSE"
                       THEN "final" ELSE "main")}
HistoryWrites ==
  {n \in DOMAIN trace : /\ trace[n][1] = "storage"
                        /\ trace[n][2] = "updateConversationHistory"}

\* C35: in a turn resolved with a plain or a function response,
\* onBeforeResponseGeneration and onAfterResponseGeneration were fired
\* exactly once each, the first before the completion call that generated
\* the returned text, the second after that call and after the history write.
ResponseHooksBracketGeneration ==
  (pc = "done" /\ response.terminal \in {"PLAIN_RESPONSE",
                                         "FUNCTION_RESPONSE"}) =>
    /\ Cardinality(FiringsOf("onBeforeResponseGeneration")) = 1
    /\ Cardinality(FiringsOf("onAfterResponseGeneration")) = 1
    /\ Cardinality(GeneratingCalls) = 1
    /\ \A b \in FiringsOf("onBeforeResponseGeneration") :
         \A g \in GeneratingCalls : b < g
    /\ \A a \in FiringsOf("onAfterResponseGeneration") :
         /\ \A g \in GeneratingCalls : g < a
         /\ \A w \in HistoryWrites : w < a

\* the function-response half of C35 on its own
ResponseHooksBracketFinalCall ==
  (pc = "done" /\ response.terminal = "FUNCTION_RESPONSE") =>
    ResponseHooksBracketGeneration

\* the transcript handed to the second completion call: the messages as they
\* are when that call is made; the part after the assistant message that
\* carries the tool calls
AssistantPosition ==
  CHOOSE k \in DOMAIN messages : messages[k] = chatResponse
ToolResultMessages == SubSeq(messages, AssistantPosition + 1, Len(messages))

\* C36: when the second completion call is made, the transcript holds after
\* the assistant message carrying the tool calls one tool message per tool
\* call of that message and nothing else, the i-th with the tool_call_id of
\* the i-th tool call.
ToolMessagePerToolCall ==
  pc = "completionFinal" =>
    /\ \E k \in DOMAIN messages : messages[k] = chatResponse
    /\ Len(ToolResultMessages) = Len(toolCalls)
    /\ \A i \in DOMAIN ToolResultMessages :
         /\ ToolResultMessages[i].role = "tool"
         /\ i <= Len(toolCalls) =>
              ToolResultMessages[i].tool_call_id = toolCalls[i].id

\* C36 for the batches whose tool calls all name functions of the contract
ToolMessagePerKnownToolCall ==
  (pc = "completionFinal" /\ DispatchedCalls = DOMAIN toolCalls) =>
    ToolMessagePerToolCall

\* what the provider held for the conversation before either call, and
\* whether a write has been made since
HistoryBefore == IF cprovider.stored THEN StoredBefore ELSE <<>>
NoWriteYet == \A i \in DOMAIN clog : clog[i][1] # "write"
SomeTurnEndedUnpersisted ==
  /\ \E c \in Calls : cpc[c] = "done"
  /\ \A c \in Calls : cpc[c] \in {"start", "done"}
  /\ NoWriteYet

\* C37: once a turn has ended without persisting (fallback, stopped or error
\* response) and no other turn is under way, the history the provider
\* returns for the conversation is the one it returned before the turn; a
\* turn that persisted wrote exactly once.
UnpersistedTurnLeavesHistory ==
  /\ SomeTurnEndedUnpersisted => StoredHistory = HistoryBefore
  /\ \A c \in Calls :
       Cardinality({i \in DOMAIN clog : clog[i] = <<"write", c>>}) <= 1

\* C37 for providers that hand out copies, and for a conversation the
\* in-memory provider holds no list for
UnpersistedTurnLeavesCopiedHistory ==
  (cprovider.kind = "copying" \/ ~cprovider.stored) =>
    UnpersistedTurnLeavesHistory

\* C37, the writes of a single turn: a fallback, stopped or error response
\* made no write, a plain or function response with a storage instance made
\* exactly one
WritesByTerminal ==
  pc = "done" =>
    Cardinality(HistoryWrites) =
      (IF /\ response.terminal \in {"PLAIN_RESPONSE", "FUNCTION_RESPONSE"}
          /\ storage = "instance"
       THEN 1 ELSE 0)

\* the contexts stored for a conversation since it was last cleared, in the
\* order of the storeContext calls
RECURSIVE StoredSince(_, _)
StoredSince(log, id) ==
  IF log = <<>> THEN <<>>
  ELSE LET e == log[Len(log)]
           before == StoredSince(SubSeq(log, 1, Len(log) - 1), id)
       IN  IF e[2] # id THEN before
           ELSE IF e[1] = "storeContext" THEN Append(before, e[3])
           ELSE <<>>

\* the configured limit of the retained list, 10 when none is configured
ConfiguredMaxContexts ==
  IF retention.maxContexts.set THEN retention.maxContexts.value ELSE 10
LastOf(seq, n) ==
  IF Len(seq) > n THEN SubSeq(seq, Len(seq) - n + 1, Len(seq)) ELSE seq

\* C38: with retention enabled the retained list of a conversation never
\* holds more than maxContexts entries and consists of the contexts most
\* recently stored for it since it was last cleared, in the order they were
\* stored; with retention disabled nothing is retained; a clear empties the
\* list of its conversation and no other.
RetentionIsBoundedFIFO ==
  \A id \in ConversationIds :
    IF retention.enabled
    THEN /\ Len(contextStore[id]) <= ConfiguredMaxContexts
         /\ contextStore[id] =
              LastOf(StoredSince(retLog, id), ConfiguredMaxContexts)
    ELSE contextStore[id] = <<>>

\* C38 for every configuration other than a configured maxContexts of 0
RetentionIsBoundedFIFOForNonZero ==
  retention.maxContexts # Configured(0) => RetentionIsBoundedFIFO

\* an eviction under a limit of 2, and a clear that left the other
\* conversation's list alone
RetentionEvictionReached ==
  /\ retention = [enabled |-> TRUE, maxContexts |-> Configured(2)]
  /\ contextStore["c1"] = <<2, 3>>
  /\ Len(retLog) = 3
RetentionClearReached ==
  /\ retention.enabled
  /\ Len(retLog) = 3
  /\ retLog[3][1] = "clearConversationHistory"
  /\ contextStore["c1"] = <<>>
  /\ contextStore["c2"] = <<2>>

\* a destroy call was made during the turn
DestroyInterleaved == \E d \in DOMAIN trace : trace[d][1] = "destroy"

LookupSucceededReached ==
  /\ pc = "done"
  /\ DetectionReturnedIntent
  /\ ~DestroyInterleaved
  /\ contract # NoContract

\* the positions of the context provider calls of the turn, and the
\* middleware of the chain that returned with continue
ProviderCalls == {n \in DOMAIN trace : trace[n][1] = "contextProvider"}
MiddlewarePassed ==
  {n \in DOMAIN trace : /\ trace[n][1] = "middleware"
                        /\ trace[n][2] = "end"
                        /\ trace[n][4] = "continue"}

\* C40: the context provider is called at most once in a turn; when it is
\* called the contract has one, every middleware of the chain has returned
\* with continue before the call and none of them supplied a context; in a
\* turn whose chain supplied a context the provider is not called and, the
\* chain not having halted, the injected context is the one the chain
\* supplied last.
ProviderOnlyWithoutMiddlewareContext ==
  /\ Cardinality(ProviderCalls) <= 1
  /\ \A n \in ProviderCalls :
       /\ contract.contextProvider
       /\ Cardinality(MiddlewarePassed) = contract.middleware
       /\ \A m \in DOMAIN trace : trace[m][1] = "middleware" => m < n
       /\ ~MiddlewareHalted
       /\ ~MiddlewareThrew
       /\ LastMiddlewareContext = NoContext
  /\ LastMiddlewareContext # NoContext =>
       /\ ProviderCalls = {}
       /\ ~MiddlewareHalted => injectedContext = LastMiddlewareContext

\* C40 witness: a contract with a context provider and two middleware, the
\* second of which supplied a context: the turn resolved without a provider
\* call and with the middleware's context injected.
ProviderOnlyWithoutMiddlewareContextWitness ==
  /\ pc = "done"
  /\ response.terminal \in {"PLAIN_RESPONSE", "FUNCTION_RESPONSE"}
  /\ contract.contextProvider
  /\ contract.middleware = 2
  /\ LastMiddlewareContext = MiddlewareContext(2)
  /\ injectedContext = MiddlewareContext(2)
  /\ ProviderCalls = {}

\* a turn in which the provider was called once, after a chain of two
\* middleware that supplied nothing
ProviderCalledAfterChainReached ==
  /\ pc = "done"
  /\ contract.middleware = 2
  /\ Cardinality(ProviderCalls) = 1
  /\ injectedContext = ProviderContext

====
